---------------------------- MODULE Spec2Model ----------------------------
(***************************************************************************)
(* Model of the agent loop of g (internal/agent/loop.go) and of the        *)
(* transport it drives (package api: doRequestWithRetry, retryDelay,       *)
(* Generate, GenerateStream).                                              *)
(*                                                                         *)
(* Durations are counted in microseconds.  Strings that the code parses    *)
(* (Retry-After, retryDelay, quotaResetDelay) are sequences of one-        *)
(* character tokens, the unit of a duration being one token.               *)
(***************************************************************************)
EXTENDS Integers, Sequences, FiniteSets, TLC

(***************************************************************************)
(* Bounds of the model.                                                    *)
(***************************************************************************)
MaxTurnsBound == 2      \* Config.MaxTurns is drawn from 0..MaxTurnsBound
MaxDetails == 2         \* length of the details list of a 429 body
MaxEvents == 4          \* parts of a streamed response in SpecRecon

(***************************************************************************)
(* Program constants.                                                      *)
(***************************************************************************)
maxRetries == 5
baseRetryDelay == 500000
maxRetryDelay == 30000000
StatusOK == 200
StatusTooManyRequests == 429
SyntheticThoughtSignature == "skip_thought_signature_validator"

Second == 1000000
Millisecond == 1000

(***************************************************************************)
(* Generic helpers.                                                        *)
(***************************************************************************)
Max(S) == CHOOSE x \in S : \A y \in S : y <= x

RECURSIVE Pow2(_)
Pow2(n) == IF n = 0 THEN 1 ELSE 2 * Pow2(n - 1)

RECURSIVE Pow10(_)
Pow10(n) == IF n = 0 THEN 1 ELSE 10 * Pow10(n - 1)

SeqsUpTo(S, n) == UNION { [1..k -> S] : k \in 0..n }

RECURSIVE Flatten(_)
Flatten(ss) == IF ss = <<>> THEN <<>> ELSE Head(ss) \o Flatten(Tail(ss))

(***************************************************************************)
(* strconv.ParseFloat / time.ParseDuration on token sequences.             *)
(* A decimal is [-]digits[.digits]; its value is kept in thousandths.      *)
(***************************************************************************)
Digits == {"0", "1", "2", "3", "4", "5", "6", "7", "8", "9"}

DigitVal(c) ==
    CASE c = "0" -> 0 [] c = "1" -> 1 [] c = "2" -> 2 [] c = "3" -> 3
      [] c = "4" -> 4 [] c = "5" -> 5 [] c = "6" -> 6 [] c = "7" -> 7
      [] c = "8" -> 8 [] c = "9" -> 9

RECURSIVE DigitsVal(_)
DigitsVal(s) ==
    IF s = <<>> THEN 0
    ELSE DigitsVal(SubSeq(s, 1, Len(s) - 1)) * 10 + DigitVal(s[Len(s)])

AllDigits(s) == \A i \in 1..Len(s) : s[i] \in Digits

\* [ok, milli]: the value of an unsigned decimal in thousandths (three
\* fractional digits are kept, as the inputs of the model never carry more).
UnsignedMilli(s) ==
    LET dots == { i \in 1..Len(s) : s[i] = "." }
        ip == IF dots = {} THEN s ELSE SubSeq(s, 1, Max(dots) - 1)
        fp == IF dots = {} THEN <<>> ELSE SubSeq(s, Max(dots) + 1, Len(s))
    IN  IF Cardinality(dots) > 1 \/ ~AllDigits(ip) \/ ~AllDigits(fp)
           \/ (ip = <<>> /\ fp = <<>>) \/ Len(fp) > 3
        THEN [ok |-> FALSE, milli |-> 0]
        ELSE [ok |-> TRUE,
              milli |-> DigitsVal(ip) * 1000 + DigitsVal(fp) * Pow10(3 - Len(fp))]

SignedMilli(s) ==
    IF s # <<>> /\ Head(s) \in {"-", "+"}
    THEN LET u == UnsignedMilli(Tail(s))
         IN  [ok |-> u.ok, milli |-> IF Head(s) = "-" THEN 0 - u.milli ELSE u.milli]
    ELSE UnsignedMilli(s)

\* strconv.ParseFloat(ra, 64): [ok, milli] with milli = 1000 * secs.
ParseFloat(s) == SignedMilli(s)

\* time.ParseDuration(s): [ok, d] with d in microseconds; the units of the
\* model are "s" and "ms", a missing or unknown unit is an error.
TimeParseDuration(s) ==
    IF s = <<>> \/ s[Len(s)] \notin {"s", "ms"}
    THEN [ok |-> FALSE, d |-> 0]
    ELSE LET n == SignedMilli(SubSeq(s, 1, Len(s) - 1))
         IN  IF ~n.ok THEN [ok |-> FALSE, d |-> 0]
             ELSE [ok |-> TRUE,
                   d |-> IF s[Len(s)] = "s" THEN n.milli * (Second \div 1000)
                         ELSE (n.milli * Millisecond) \div 1000]

\* parseDuration: 0 for the empty string and for a string that does not parse.
parseDuration(s) ==
    IF s = <<>> THEN 0
    ELSE LET r == TimeParseDuration(s) IN IF ~r.ok THEN 0 ELSE r.d

(***************************************************************************)
(* retryDelay(body, headers, attempt).                                     *)
(* headers: the value headers.Get("Retry-After") would return (<<>> when   *)
(* the header is absent).  body: [json, details], json = FALSE for a body  *)
(* json.Unmarshal rejects; a detail is [retryDelay, quotaResetDelay].      *)
(***************************************************************************)
RECURSIVE DetailsDelay(_)
DetailsDelay(details) ==
    IF details = <<>> THEN 0
    ELSE IF parseDuration(Head(details).retryDelay) > 0
         THEN parseDuration(Head(details).retryDelay)
    ELSE IF parseDuration(Head(details).quotaResetDelay) > 0
         THEN parseDuration(Head(details).quotaResetDelay)
    ELSE DetailsDelay(Tail(details))

Backoff(attempt) ==
    LET d == baseRetryDelay * Pow2(attempt)
    IN  IF d > maxRetryDelay THEN maxRetryDelay ELSE d

\* retryDelay with the body consulted before the header
retryDelayBodyFirst(body, ra, attempt) ==
    IF body.json /\ DetailsDelay(body.details) > 0
    THEN DetailsDelay(body.details)
    ELSE IF ra # <<>> /\ ParseFloat(ra).ok /\ ParseFloat(ra).milli > 0
    THEN ParseFloat(ra).milli * (Second \div 1000)
    ELSE Backoff(attempt)

retryDelay(body, ra, attempt) ==
    IF ra # <<>> /\ ParseFloat(ra).ok /\ ParseFloat(ra).milli > 0
    THEN ParseFloat(ra).milli * (Second \div 1000)
    ELSE IF body.json /\ DetailsDelay(body.details) > 0
    THEN DetailsDelay(body.details)
    ELSE Backoff(attempt)


(***************************************************************************)
(* api.Part, api.Content, api.GenerateResponse, api.StreamEvent.           *)
(* A nil *FunctionCall / *FunctionResp is the empty sequence, a non-nil    *)
(* one a one-element sequence.  A Go map is a set of <<key, value>> pairs. *)
(***************************************************************************)
NoCall == <<>>
NoResp == <<>>

Part(text, fc, fr, sig) == [text |-> text, fc |-> fc, fr |-> fr, sig |-> sig]
TextPart(text, sig) == Part(text, NoCall, NoResp, sig)
CallPart(name, sig) == Part("", <<[name |-> name]>>, NoResp, sig)
\* a FunctionResponse part that loses the name of its call
RespPartUnnamed(name, response) ==
    Part("", NoCall, <<[name |-> "", response |-> response]>>, "")

RespPart(name, response) ==
    Part("", NoCall, <<[name |-> name, response |-> response]>>, "")
Content(role, parts) == [role |-> role, parts |-> parts]

Candidate(parts, finishReason) == [parts |-> parts, finishReason |-> finishReason]
\* usage is UsageMetadata.TotalTokenCount
GenerateResponse(candidates, usage) == [candidates |-> candidates, usage |-> usage]

StreamEvent(type, text, toolCall, sig, usage, finishReason, error) ==
    [type |-> type, text |-> text, toolCall |-> toolCall, sig |-> sig,
     usage |-> usage, finishReason |-> finishReason, error |-> error]
StartEvent == StreamEvent("start", "", NoCall, "", 0, "", "")
ContentEvent(text, sig) == StreamEvent("content", text, NoCall, sig, 0, "", "")
ToolCallEvent(fc, sig) == StreamEvent("tool_call", "", fc, sig, 0, "", "")
DoneEvent(usage, finishReason) == StreamEvent("done", "", NoCall, "", usage, finishReason, "")
ErrorEvent(msg) == StreamEvent("error", "", NoCall, "", 0, "", msg)

(***************************************************************************)
(* The producer of GenerateStream.  A response body is                     *)
(*   [lines, rest, readErr]                                                *)
(* lines: the newline-terminated lines, each [kind, chunk] with kind       *)
(*   "data"     an event line whose payload decodes to chunk,              *)
(*   "bad"      an event line whose payload is not valid JSON,             *)
(*   "other"    a blank line or a line without the "data: " prefix,        *)
(*   "sentinel" the line "data: [DONE]";                                   *)
(* rest: the bytes after the last newline (a line without newline), as a   *)
(*   sequence of at most one line; readErr: the read after the last byte   *)
(*   fails with an error other than io.EOF.                                *)
(***************************************************************************)
Line(kind, chunk) == [kind |-> kind, chunk |-> chunk]
NoChunk == GenerateResponse(<<>>, 0)
DataLine(chunk) == Line("data", chunk)
SentinelLine == Line("sentinel", NoChunk)
OtherLine == Line("other", NoChunk)
BadLine == Line("bad", NoChunk)
Body(lines, rest, readErr) == [lines |-> lines, rest |-> rest, readErr |-> readErr]

\* lines 484-498: the events of one part
PartEvents(part) ==
    (IF part.text # "" THEN <<ContentEvent(part.text, part.sig)>> ELSE <<>>)
    \o (IF part.fc # NoCall THEN <<ToolCallEvent(part.fc, part.sig)>> ELSE <<>>)

RECURSIVE PartsEvents(_)
PartsEvents(parts) ==
    IF parts = <<>> THEN <<>>
    ELSE PartEvents(Head(parts)) \o PartsEvents(Tail(parts))

\* lines 480-500: the events of one chunk, candidate by candidate
RECURSIVE CandidatesEvents(_)
CandidatesEvents(cands) ==
    IF cands = <<>> THEN <<>>
    ELSE PartsEvents(Head(cands).parts) \o CandidatesEvents(Tail(cands))

\* a loop that reads past the sentinel
LinesReadPastSentinel(lines) == SelectSeq(lines, LAMBDA l : l.kind # "sentinel")

\* The lines the loop reads before it breaks on the sentinel.
RECURSIVE LinesRead(_)
LinesRead(lines) ==
    IF lines = <<>> \/ Head(lines).kind = "sentinel" THEN <<>>
    ELSE <<Head(lines)>> \o LinesRead(Tail(lines))

SentinelReached(lines) == \E i \in 1..Len(lines) : lines[i].kind = "sentinel"

RECURSIVE LinesEvents(_)
LinesEvents(lines) ==
    IF lines = <<>> THEN <<>>
    ELSE (IF Head(lines).kind = "data"
          THEN CandidatesEvents(Head(lines).chunk.candidates) ELSE <<>>)
         \o LinesEvents(Tail(lines))

\* a usage that every chunk overwrites, with or without a count
RECURSIVE LastUsageOfAny(_, _)
LastUsageOfAny(lines, usage) ==
    IF lines = <<>> THEN usage
    ELSE LastUsageOfAny(Tail(lines),
                        IF Head(lines).kind = "data"
                        THEN Head(lines).chunk.usage ELSE usage)

\* lines 475-477: usage of the last chunk that carried a total token count
RECURSIVE LastUsage(_, _)
LastUsage(lines, usage) ==
    IF lines = <<>> THEN usage
    ELSE LastUsage(Tail(lines),
                   IF Head(lines).kind = "data" /\ Head(lines).chunk.usage > 0
                   THEN Head(lines).chunk.usage ELSE usage)

RECURSIVE LastFinishOfCands(_, _)
LastFinishOfCands(cands, fin) ==
    IF cands = <<>> THEN fin
    ELSE LastFinishOfCands(Tail(cands),
                           IF Head(cands).finishReason # ""
                           THEN Head(cands).finishReason ELSE fin)

\* lines 481-483: finish reason of the last candidate that carried one
RECURSIVE LastFinish(_, _)
LastFinish(lines, fin) ==
    IF lines = <<>> THEN fin
    ELSE LastFinish(Tail(lines),
                    IF Head(lines).kind = "data"
                    THEN LastFinishOfCands(Head(lines).chunk.candidates, fin)
                    ELSE fin)

\* Everything the goroutine of GenerateStream sends, in order (lines 439-505).
\* A line without trailing newline comes back from ReadString together with
\* io.EOF and is dropped by the break; a read error is followed by the break
\* and then by the done event as well.
GoroutineEvents(body) ==
    LET read == LinesRead(body.lines)
    IN  <<StartEvent>>
        \o LinesEvents(read)
        \o (IF ~SentinelReached(body.lines) /\ body.readErr
            THEN <<ErrorEvent("read error")>> ELSE <<>>)
        \o <<DoneEvent(LastUsage(read, 0), LastFinish(read, ""))>>

(***************************************************************************)
(* The consumer of callModelStreaming (lines 153-199).                     *)
(***************************************************************************)
StreamState(parts, currentText, lastTextSignature) ==
    [parts |-> parts, currentText |-> currentText,
     lastTextSignature |-> lastTextSignature]

NewStreamState == StreamState(<<>>, "", "")

\* lines 161-168
OnContent(st, event) ==
    StreamState(st.parts,
                IF event.text # "" THEN st.currentText \o event.text ELSE st.currentText,
                IF event.sig # "" THEN event.sig ELSE st.lastTextSignature)

\* a flush that keeps the token of the segment it flushed
FlushTextKeepingToken(st) ==
    IF st.currentText # ""
    THEN StreamState(Append(st.parts, TextPart(st.currentText, st.lastTextSignature)),
                     "", st.lastTextSignature)
    ELSE st

\* lines 171-178 and 194-199: flush the accumulated text as a part
FlushText(st) ==
    IF st.currentText # ""
    THEN StreamState(Append(st.parts, TextPart(st.currentText, st.lastTextSignature)),
                     "", "")
    ELSE st

\* lines 194-199: the flush after the stream closed (nothing is reset, the
\* locals are not read again)
FinalFlush(st) == FlushText(st).parts

\* OnToolCall without the flush of the accumulated text
OnToolCallNoFlush(st, event) ==
    IF event.toolCall # NoCall
    THEN StreamState(Append(st.parts, Part("", event.toolCall, NoResp, event.sig)),
                     st.currentText, st.lastTextSignature)
    ELSE st

\* lines 169-185
OnToolCall(st, event) ==
    LET f == FlushText(st)
    IN  IF event.toolCall # NoCall
        THEN StreamState(Append(f.parts,
                                Part("", event.toolCall, NoResp, event.sig)),
                         f.currentText, f.lastTextSignature)
        ELSE f

\* one iteration of the loop over the stream, error events excepted
OnEvent(st, event) ==
    CASE event.type = "content" -> OnContent(st, event)
      [] event.type = "tool_call" -> OnToolCall(st, event)
      [] OTHER -> st

\* a loop that hands every event to formatter.WriteStreamEvent
ForwardsEveryEvent(event) == TRUE

\* the events the loop hands to formatter.WriteStreamEvent
ForwardsToSink(event) ==
    \/ event.type = "content" /\ event.text # ""
    \/ event.type \in {"done", "start"}

(***************************************************************************)
(* callModelNonStreaming (lines 222-232): every part of every candidate.   *)
(***************************************************************************)
RECURSIVE BufferedParts(_)
BufferedParts(cands) ==
    IF cands = <<>> THEN <<>>
    ELSE Head(cands).parts \o BufferedParts(Tail(cands))

\* a collector that never sees a function call
HasNoFunctionCalls(parts) == FALSE

HasFunctionCalls(parts) == \E i \in 1..Len(parts) : parts[i].fc # NoCall

\* an extraction that stops at the first call
FunctionCallsFirstOnly(parts) ==
    LET ps == SelectSeq(parts, LAMBDA p : p.fc # NoCall)
    IN  IF ps = <<>> THEN <<>> ELSE <<ps[1].fc[1]>>

\* Run, lines 72-77
RECURSIVE FunctionCalls(_)
FunctionCalls(parts) ==
    IF parts = <<>> THEN <<>>
    ELSE (IF Head(parts).fc # NoCall THEN Head(parts).fc ELSE <<>>)
         \o FunctionCalls(Tail(parts))

\* ensureThoughtSignatures that synthesizes nothing
keepThoughtSignatures(parts) == parts

\* ensureThoughtSignatures, lines 271-278
ensureThoughtSignatures(parts) ==
    [i \in 1..Len(parts) |->
        IF parts[i].fc # NoCall /\ parts[i].sig = ""
        THEN [parts[i] EXCEPT !.sig = SyntheticThoughtSignature]
        ELSE parts[i]]


(***************************************************************************)
(* The tool registry and executeTool (loop.go lines 243-267).              *)
(* A result map is the key-sorted sequence of its <<key, value>> pairs.    *)
(***************************************************************************)
Builtins == {"list_directory", "read_file"}

\* Registry.mcp as run() fills it: RegisterMCPTool(serverName, prefixedName)
MCPRefs ==
    [n \in {"srv__echo", "off__ping"} |->
        IF n = "srv__echo" THEN [ServerName |-> "srv", ToolName |-> "srv__echo"]
        ELSE [ServerName |-> "off", ToolName |-> "off__ping"]]

\* the servers whose client initialized
mcpClients == {"srv"}

NilMap == <<>>

\* a Loop: [registry |-> [builtins, mcp], mcpClients]
LoopOf(builtins, mcp, clients) ==
    [registry |-> [builtins |-> builtins, mcp |-> mcp], mcpClients |-> clients]

\* the Loop run() builds
TheLoop == LoopOf(Builtins, MCPRefs, mcpClients)

\* what the handler a call resolves to in l may do when it is invoked
HandlerOutcomesOf(l, name) ==
    IF name \in l.registry.builtins THEN {"ok", "soft", "fail"}
    ELSE IF name \in DOMAIN l.registry.mcp
            /\ l.registry.mcp[name].ServerName \in l.mcpClients
    THEN {"ok", "fail"}
    ELSE {"none"}

HandlerOutcomes(name) == HandlerOutcomesOf(TheLoop, name)

\* executeTool that asks the remote registry first
executeToolRemoteFirst(l, fc, outcome) ==
    IF fc.name \in DOMAIN l.registry.mcp
    THEN IF l.registry.mcp[fc.name].ServerName \notin l.mcpClients
         THEN [result |-> NilMap,
               err |-> "MCP server \"" \o l.registry.mcp[fc.name].ServerName
                       \o "\" not connected",
               handler |-> "", tool |-> ""]
         ELSE [result |-> << <<"result", "pong">> >>, err |-> "",
               handler |-> l.registry.mcp[fc.name].ServerName,
               tool |-> l.registry.mcp[fc.name].ToolName]
    ELSE IF fc.name \in l.registry.builtins
    THEN [result |-> << <<"count", "2">> >>, err |-> "", handler |-> "builtin", tool |-> ""]
    ELSE [result |-> NilMap, err |-> "unknown tool: " \o fc.name, handler |-> "", tool |-> ""]

\* executeTool that calls the server of a remote tool without looking for
\* its client
executeToolNoClientCheck(l, fc, outcome) ==
    IF fc.name \in l.registry.builtins
    THEN [result |-> << <<"count", "2">> >>, err |-> "", handler |-> "builtin", tool |-> ""]
    ELSE IF fc.name \in DOMAIN l.registry.mcp
    THEN [result |-> << <<"result", "pong">> >>, err |-> "",
          handler |-> l.registry.mcp[fc.name].ServerName,
               tool |-> l.registry.mcp[fc.name].ToolName]
    ELSE [result |-> NilMap, err |-> "unknown tool: " \o fc.name, handler |-> "", tool |-> ""]

\* l.executeTool(ctx, fc), lines 243-267.  [result, err, handler]: err = ""
\* is the nil error; handler names the handler that ran ("" when none did)
\* and tool the name CallTool was given
executeToolOf(l, fc, outcome) ==
    IF fc.name \in l.registry.builtins
    THEN IF outcome = "fail"
         THEN [result |-> NilMap, err |-> "tool failed", handler |-> "builtin", tool |-> ""]
         ELSE IF outcome = "soft"
         THEN [result |-> << <<"error", "no such file">> >>, err |-> "",
               handler |-> "builtin", tool |-> ""]
         ELSE [result |-> << <<"count", "2">>, <<"entries", "a.txt b.txt">> >>,
               err |-> "", handler |-> "builtin", tool |-> ""]
    ELSE IF fc.name \in DOMAIN l.registry.mcp
    THEN IF l.registry.mcp[fc.name].ServerName \notin l.mcpClients
         THEN [result |-> NilMap,
               err |-> "MCP server \"" \o l.registry.mcp[fc.name].ServerName
                       \o "\" not connected",
               handler |-> "", tool |-> ""]
         ELSE IF outcome = "fail"
         THEN [result |-> NilMap, err |-> "call failed",
               handler |-> l.registry.mcp[fc.name].ServerName,
               tool |-> l.registry.mcp[fc.name].ToolName]
         ELSE [result |-> << <<"result", "pong">> >>, err |-> "",
               handler |-> l.registry.mcp[fc.name].ServerName,
               tool |-> l.registry.mcp[fc.name].ToolName]
    ELSE [result |-> NilMap, err |-> "unknown tool: " \o fc.name, handler |-> "", tool |-> ""]

executeTool(fc, outcome) == executeToolOf(TheLoop, fc, outcome)

\* a result that drops the error of a failed call
ResultOfDroppingError(exec) == exec.result

\* Run, lines 102-123: the FunctionResponse part of one executed call
ResultOf(exec) ==
    IF exec.err # "" THEN << <<"error", exec.err>> >> ELSE exec.result

(***************************************************************************)
(* Requests: URL, headers, body.                                           *)
(***************************************************************************)
baseURL == "https://cloudcode-pa.googleapis.com"

\* Generate line 273, GenerateStream line 418: the endpoint as a string
Endpoint(streaming) ==
    IF streaming
    THEN <<baseURL, "/v1internal:streamGenerateContent", "?", "alt=sse">>
    ELSE <<baseURL, "/v1internal:generateContent">>

\* url.Parse, as http.NewRequestWithContext applies it
ParseURL(s) ==
    LET q == { i \in 1..Len(s) : s[i] = "?" }
    IN  IF q = {} THEN [host |-> s[1], path |-> SubSeq(s, 2, Len(s)), query |-> <<>>]
        ELSE [host |-> s[1],
              path |-> SubSeq(s, 2, Max(q) - 1),
              query |-> SubSeq(s, Max(q) + 1, Len(s))]

\* URL.String()
URLString(u) ==
    <<u.host>> \o u.path \o (IF u.query = <<>> THEN <<>> ELSE <<"?">> \o u.query)

\* json.Marshal of one part: omitempty fields are left out
MarshalPart(p) ==
    (IF p.text # "" THEN <<"text", p.text>> ELSE <<>>)
    \o (IF p.fc # NoCall THEN <<"functionCall", p.fc[1].name>> ELSE <<>>)
    \o (IF p.fr # NoResp
        THEN <<"functionResponse", p.fr[1].name>> \o Flatten(p.fr[1].response)
        ELSE <<>>)
    \o (IF p.sig # "" THEN <<"thoughtSignature", p.sig>> ELSE <<>>)

RECURSIVE MarshalParts(_)
MarshalParts(parts) ==
    IF parts = <<>> THEN <<>>
    ELSE <<"{">> \o MarshalPart(Head(parts)) \o <<"}">> \o MarshalParts(Tail(parts))

RECURSIVE MarshalContents(_)
MarshalContents(cs) ==
    IF cs = <<>> THEN <<>>
    ELSE <<"role", Head(cs).role, "[">> \o MarshalParts(Head(cs).parts) \o <<"]">>
         \o MarshalContents(Tail(cs))

\* json.Marshal(req), lines 275 and 420
Marshal(cs) == <<"model", "gemini-2.5-flash", "contents">> \o MarshalContents(cs)

\* bytes.NewReader
NewReader(data) == [data |-> data, pos |-> 0]

NoURL == [host |-> "", path |-> <<>>, query |-> <<>>]
NoHTTPRequest == [method |-> "", url |-> NoURL, header |-> 0, body |-> NewReader(<<>>)]

\* what a reader still delivers
Unread(reader) == SubSeq(reader.data, reader.pos + 1, Len(reader.data))

\* Header.Clone that hands back the map it was given
CloneHeaderAlias(h, ref) == [heap |-> h, ref |-> ref]

\* Header.Clone: a new map with the same entries; [heap, ref]
CloneHeader(h, ref) ==
    LET new == Max(DOMAIN h) + 1
    IN  [heap |-> [r \in DOMAIN h \cup {new} |-> IF r = new THEN h[ref] ELSE h[r]],
         ref |-> new]

\* the header maps still referenced
Collect(h, refs) == [r \in refs |-> h[r]]

(***************************************************************************)
(* Errors and transport outcomes.                                          *)
(***************************************************************************)
ErrBody(raw, json, details) == [raw |-> raw, json |-> json, details |-> details]
NoBody == ErrBody("", FALSE, <<>>)
Detail(rd, qrd) == [retryDelay |-> rd, quotaResetDelay |-> qrd]

\* kind: "running" while Run has not returned, "nil" for success
Err(kind, n, body, cause) == [kind |-> kind, n |-> n, body |-> body, cause |-> cause]
Running == Err("running", 0, NoBody, "")
NilErr == Err("nil", 0, NoBody, "")
CtxErr == Err("ctx", 0, NoBody, "ctx")

\* what httpClient.Do yields: a send failure, or a response
Outcome(kind, status, ra, body, payload) ==
    [kind |-> kind, status |-> status, ra |-> ra, body |-> body, payload |-> payload]
NoPayload == [decodes |-> FALSE, resp |-> NoChunk, sbody |-> Body(<<>>, <<>>, FALSE)]
NetErr == Outcome("neterr", 0, <<>>, NoBody, NoPayload)
HttpError(status, ra, body) == Outcome("http", status, ra, body, NoPayload)
OkBuffered(decodes, resp) ==
    Outcome("http", StatusOK, <<>>, NoBody,
            [decodes |-> decodes, resp |-> resp, sbody |-> Body(<<>>, <<>>, FALSE)])
OkStream(sbody) ==
    Outcome("http", StatusOK, <<>>, NoBody,
            [decodes |-> TRUE, resp |-> NoChunk, sbody |-> sbody])
NoResponse == Outcome("none", 0, <<>>, NoBody, NoPayload)

NoRequest == [method |-> "", url |-> <<>>, headers |-> {}, body |-> <<>>]


(***************************************************************************)
(* State.                                                                  *)
(***************************************************************************)
VARIABLES
    cfg,            \* agent.Config: [MaxTurns, Streaming]
    env,            \* what the backend and the transport may do:
                    \*   [outcomes, mutate]
    pc,             \* where Run is: "top", "http", "wait", "stream",
                    \*   "dispatch", "done"; in SpecRepl also "prompt"
    turn,           \* Run: the loop counter
    contents,       \* req.Request.Contents
    ctxDone,        \* ctx.Done() is closed
    runErr,         \* what Run returned
    modelParts,     \* Run: what callModel returned in this turn
    functionCalls,  \* Run: the calls of this turn
    resultParts,    \* Run: the FunctionResponse parts collected so far
    attempt,        \* doRequestWithRetry: the loop counter
    httpReq,        \* doRequestWithRetry: [method, url, header, body]
    origURL,        \* doRequestWithRetry
    origHeaders,    \* doRequestWithRetry: reference into heap
    bodyBytes,      \* doRequestWithRetry
    heap,           \* the http.Header maps, by reference
    lastErr,        \* doRequestWithRetry: body of the last 429
    delay,          \* doRequestWithRetry: the wait in progress
    stream,         \* events the goroutine of the latest GenerateStream has yet
                    \*   to send on its channel (it is blocked on the first)
    prod,           \* that goroutine: "none", "running", "exited"
    orphans,        \* goroutines of earlier streams that had not exited when
                    \*   the next stream was opened
    received,       \* per stream of this invocation, the events the consumer
                    \*   took from the channel, in order
    st,             \* callModelStreaming: parts, currentText, lastTextSignature
    sink,           \* the calls made on the formatter, in order
    \* observations
    transportCalls, \* calls of Generate / GenerateStream made by Run
    httpSent,       \* requests sent by the current transport call
    firstReq,       \* the first request the current transport call sent
    lastReq,        \* the latest request the current transport call sent
    lastResp,       \* the latest outcome of httpClient.Do
    waitsDone,      \* retry waits of the current transport call that ran to their end
    asArrived,      \* for each turn of contents, the parts as callModel returned them
    execLog,        \* the executeTool calls of this turn: [name, handler, tool,
                    \*   outcome, err] (what ran, what it did, what came back)
    cancelAt,       \* where Run was when the context was cancelled
    ext,            \* extension loader: the call of isEnabled and what it
                    \*   returned, [call, returned, enabled]
    signal             \* run(): [isREPL, rootDone], the mode and whether the
                    \*   signal handler has cancelled the context of run()

\* what no step of Run, of the transport or of the REPL changes
constVars == <<cfg, env, ext, signal>>
runVars == <<turn, contents, modelParts, functionCalls, resultParts, asArrived, execLog>>
retryVars == <<attempt, httpReq, origURL, origHeaders, bodyBytes, heap>>
waitVars == <<lastErr, delay>>
streamVars == <<stream, st, prod, orphans, received>>
callObs == <<httpSent, firstReq, lastReq, lastResp>>
vars == <<ext, signal, prod, orphans, received,
         cfg, env, pc, turn, contents, ctxDone, runErr, modelParts, functionCalls,
          resultParts, attempt, httpReq, origURL, origHeaders, bodyBytes, heap,
          lastErr, delay, stream, st, sink, transportCalls, httpSent, firstReq,
          lastReq, lastResp, waitsDone, asArrived, execLog, cancelAt>>

NotCancelled == [pc |-> "", sent |-> 0]

\* ext outside SpecEnabled: no call of isEnabled
NoExt == [call |-> [extName |-> "", path |-> <<>>,
                    enablement |-> [isNil |-> TRUE, entries |-> <<>>]],
          returned |-> FALSE, enabled |-> TRUE]

\* Run returns err
Return(err) == pc' = "done" /\ runErr' = err

(***************************************************************************)
(* Run, lines 54-59: the loop condition and the cancellation check.        *)
(***************************************************************************)
LoopCondInclusive(t, maxTurns) == t <= maxTurns

\* a budget that is spent one turn early
LoopCondOneLess(t, maxTurns) == t < maxTurns - 1

LoopCond(t, maxTurns) == t < maxTurns

\* Generate lines 273-286 / GenerateStream lines 418-432, and the entry of
\* doRequestWithRetry, lines 50-52
StartCall ==
    LET body == Marshal(contents)
        h0 == (1 :> ({<<"Content-Type", "application/json">>}
                     \cup (IF cfg.Streaming
                           THEN {<<"Accept", "text/event-stream">>} ELSE {})))
        c == CloneHeader(h0, 1)
        req == [method |-> "POST", url |-> ParseURL(Endpoint(cfg.Streaming)),
                header |-> 1, body |-> NewReader(body)]
    IN  /\ pc' = "http"
        /\ runErr' = runErr
        /\ bodyBytes' = body
        /\ httpReq' = req
        /\ origURL' = URLString(req.url)
        /\ origHeaders' = c.ref
        /\ heap' = c.heap
        /\ attempt' = 0
        /\ lastErr' = NoBody
        /\ delay' = 0
        /\ transportCalls' = transportCalls + 1
        /\ httpSent' = 0
        /\ firstReq' = NoRequest
        /\ lastReq' = NoRequest
        /\ lastResp' = NoResponse
        /\ waitsDone' = 0

\* a loop that never looks at the context
CtxNeverSelected(done) == FALSE

\* lines 55-59: the select takes the ctx.Done() case when the channel is closed
CtxSelected(done) == done

LoopTop ==
    /\ pc = "top"
    /\ IF ~LoopCond(turn, cfg.MaxTurns)
       THEN /\ Return(Err("maxturns", cfg.MaxTurns, NoBody, ""))
            /\ UNCHANGED <<retryVars, waitVars, callObs, transportCalls, waitsDone>>
       ELSE IF CtxSelected(ctxDone)
       THEN /\ Return(CtxErr)
            /\ UNCHANGED <<retryVars, waitVars, callObs, transportCalls, waitsDone>>
       ELSE StartCall
    /\ UNCHANGED <<constVars, runVars, ctxDone, streamVars, sink, cancelAt>>

(***************************************************************************)
(* Run, lines 71-90: what follows the return of callModel.                 *)
(***************************************************************************)
\* an append that keeps the history to its last three turns
AppendContentTrimming(cs, c) ==
    IF Len(cs) >= 3 THEN Append(Tail(cs), c) ELSE Append(cs, c)

\* lines 87-90 and 126-129: req.Request.Contents = append(req.Request.Contents, c)
AppendContent(cs, c) == Append(cs, c)

ShouldStopWhenEmpty(parts, calls) == Len(parts) = 0

ShouldStop(parts, calls) == Len(calls) = 0

RunContinue(parts) ==
    LET calls == FunctionCalls(parts)
        model == Content("model", ensureThoughtSignatures(parts))
    IN  /\ modelParts' = parts
        /\ IF ShouldStop(parts, calls)
           THEN /\ Return(NilErr)
                /\ UNCHANGED <<turn, contents, functionCalls, resultParts, asArrived,
                               execLog>>
           ELSE IF calls = <<>>
           THEN \* no call to execute: lines 93-130 append an empty user turn
                /\ pc' = "top"
                /\ runErr' = runErr
                /\ turn' = turn + 1
                /\ contents' = AppendContent(AppendContent(contents, model),
                                           Content("user", <<>>))
                /\ asArrived' = asArrived \o <<parts, <<>>>>
                /\ functionCalls' = calls
                /\ resultParts' = <<>>
                /\ execLog' = <<>>
           ELSE /\ pc' = "dispatch"
                /\ runErr' = runErr
                /\ turn' = turn
                /\ contents' = AppendContent(contents, model)
                /\ asArrived' = Append(asArrived, parts)
                /\ functionCalls' = calls
                /\ resultParts' = <<>>
                /\ execLog' = <<>>

(***************************************************************************)
(* doRequestWithRetry, lines 65-92: one httpClient.Do and what follows it  *)
(* up to the next wait.                                                    *)
(***************************************************************************)
IsFatalBelow500(status) == status # StatusTooManyRequests /\ status < 500

\* line 78
IsFatalStatus(status) == status # StatusTooManyRequests

\* what goes on the wire for the request as it stands
Wire(req, h) ==
    [method |-> req.method, url |-> URLString(req.url), headers |-> h[req.header],
     body |-> Unread(req.body)]

\* callModelNonStreaming, lines 217-239, once Generate has the response
OnBufferedOK(o) ==
    IF ~o.payload.decodes
    THEN /\ Return(Err("decode", 0, NoBody, ""))
         /\ UNCHANGED <<runVars, streamVars, sink>>
    ELSE LET parts == BufferedParts(o.payload.resp.candidates)
         IN  /\ sink' = IF ~HasFunctionCalls(parts)
                        THEN Append(sink, [op |-> "WriteResponse",
                                           arg |-> o.payload.resp])
                        ELSE sink
             /\ RunContinue(parts)
             /\ UNCHANGED streamVars

\* GenerateStream lines 437-507 and callModelStreaming lines 153-155
OnStreamOK(o) ==
    /\ stream' = GoroutineEvents(o.payload.sbody)
    /\ st' = NewStreamState
    /\ prod' = "running"
    /\ orphans' = IF prod = "running" THEN orphans + 1 ELSE orphans
    /\ received' = Append(received, <<>>)
    /\ pc' = "stream"
    /\ runErr' = runErr
    /\ UNCHANGED <<runVars, sink>>

\* doRequestWithRetry returned the response (line 71): its locals are gone
LeaveRetryLoop ==
    /\ attempt' = 0
    /\ httpReq' = NoHTTPRequest
    /\ origURL' = <<>>
    /\ origHeaders' = 0
    /\ bodyBytes' = <<>>
    /\ heap' = <<>>
    /\ lastErr' = NoBody
    /\ delay' = 0

\* httpClient.Do has read the body of the request; a transport may also have
\* written to the header map it was handed
AfterDo(mutates) ==
    /\ httpReq' = [httpReq EXCEPT !.body = [data |-> @.data, pos |-> Len(@.data)]]
    /\ heap' = IF mutates
               THEN [heap EXCEPT ![httpReq.header] =
                                     @ \cup {<<"Authorization", "Bearer t">>}]
               ELSE heap
    /\ UNCHANGED <<attempt, origURL, origHeaders, bodyBytes>>

DoOutcome(o, mutates) ==
    /\ httpSent' = httpSent + 1
    /\ firstReq' = IF httpSent = 0 THEN Wire(httpReq, heap) ELSE firstReq
    /\ lastReq' = Wire(httpReq, heap)
    /\ lastResp' = o
    /\ IF o.kind = "neterr"
       THEN /\ Return(Err("send", 0, NoBody, "net"))
            /\ AfterDo(mutates)
            /\ UNCHANGED <<runVars, waitVars, streamVars, sink>>
       ELSE IF o.status = StatusOK
       THEN /\ IF cfg.Streaming THEN OnStreamOK(o) ELSE OnBufferedOK(o)
            /\ LeaveRetryLoop
       ELSE IF IsFatalStatus(o.status)
       THEN /\ Return(Err("api", o.status, o.body, ""))
            /\ AfterDo(mutates)
            /\ UNCHANGED <<runVars, waitVars, streamVars, sink>>
       ELSE /\ delay' = retryDelay(o.body, o.ra, attempt)
            /\ lastErr' = o.body
            /\ pc' = "wait"
            /\ runErr' = runErr
            /\ AfterDo(mutates)
            /\ UNCHANGED <<runVars, streamVars, sink>>

Do ==
    /\ pc = "http"
    /\ IF ctxDone
       THEN \* the request's context is done: Do fails without sending
            /\ Return(Err("send", 0, NoBody, "ctx"))
            /\ UNCHANGED <<runVars, retryVars, waitVars, streamVars, sink, callObs>>
       ELSE \E o \in env.outcomes, m \in env.mutate : DoOutcome(o, m)
    /\ UNCHANGED <<constVars, ctxDone, transportCalls, waitsDone, cancelAt>>

(***************************************************************************)
(* doRequestWithRetry, lines 86-94 and 54-63: the wait and the next        *)
(* attempt.                                                                *)
(***************************************************************************)
RetriesExhaustedEarly(a) == a >= maxRetries

\* line 54, negated
RetriesExhausted(a) == a > maxRetries

TimerFire ==
    /\ pc = "wait"
    /\ waitsDone' = waitsDone + 1
    /\ IF RetriesExhausted(attempt + 1)
       THEN /\ Return(Err("ratelimited", maxRetries, lastErr, "429"))
            /\ UNCHANGED retryVars
       ELSE LET c == CloneHeader(heap, origHeaders)
            IN  /\ attempt' = attempt + 1
                /\ httpReq' = [method |-> httpReq.method, url |-> ParseURL(origURL),
                               header |-> c.ref, body |-> NewReader(bodyBytes)]
                /\ heap' = Collect(c.heap, {origHeaders, c.ref})
                /\ pc' = "http"
                /\ runErr' = runErr
                /\ UNCHANGED <<origURL, origHeaders, bodyBytes>>
    /\ UNCHANGED <<constVars, runVars, ctxDone, waitVars, streamVars, sink,
                   transportCalls, callObs, cancelAt>>

\* The context of the request also governs the reads of the response body:
\* once it is cancelled a read that has to wait for the network fails.  What
\* the goroutine has yet to send when n events were taken and the read after
\* line j fails, for every j the n events allow.
StreamsCutShort(body, n) ==
    LET ls == LinesRead(body.lines)
    IN  { SubSeq(GoroutineEvents(Body(SubSeq(ls, 1, j), <<>>, TRUE)), n + 1,
                 Len(GoroutineEvents(Body(SubSeq(ls, 1, j), <<>>, TRUE)))) :
            j \in { k \in 0..Len(ls) : n <= 1 + Len(LinesEvents(SubSeq(ls, 1, k))) } }

\* a wait that does not look at the context
SleepIgnoresCtx == UNCHANGED <<pc, runErr>>

\* lines 86-88: the select takes the ctx.Done() case
SelectCtxDone == Return(CtxErr)

\* the context Run was given is cancelled: what that does to Run and to the
\* goroutine of the stream
CancelCtx ==
    /\ ctxDone' = TRUE
    /\ cancelAt' = [pc |-> pc, sent |-> httpSent]
    /\ IF pc = "wait" THEN SelectCtxDone ELSE UNCHANGED <<pc, runErr>>
    /\ IF pc = "stream" /\ prod = "running"
       THEN stream' \in {stream}
                        \cup StreamsCutShort(lastResp.payload.sbody,
                                             Len(received[Len(received)]))
       ELSE UNCHANGED stream

Cancel ==
    /\ pc # "done"
    /\ ~ctxDone
    /\ CancelCtx
    /\ UNCHANGED <<constVars, runVars, retryVars, waitVars, st, prod, orphans,
                   received, sink, transportCalls, callObs, waitsDone>>

(***************************************************************************)
(* callModelStreaming, lines 157-199.                                      *)
(***************************************************************************)
\* a channel that loses the event sent after the one it hands over
ChanRecvLossy ==
    /\ stream' = (IF Len(stream) > 2 THEN Tail(Tail(stream)) ELSE Tail(stream))
    /\ received' = [received EXCEPT ![Len(received)] = Append(@, Head(stream))]

\* part_002 line 437 and loop.go line 157: the channel has no buffer, so the
\* send the goroutine is blocked on and the receive of the range are one step
ChanRecv ==
    /\ stream' = Tail(stream)
    /\ received' = [received EXCEPT ![Len(received)] = Append(@, Head(stream))]

RecvEvent ==
    /\ pc = "stream"
    /\ prod = "running"
    /\ stream # <<>>
    /\ ChanRecv
    /\ UNCHANGED <<prod, orphans>>
    /\ LET event == Head(stream)
       IN  IF event.type = "error"
           THEN /\ Return(Err("stream", 0, NoBody, event.error))
                /\ UNCHANGED <<st, sink>>
           ELSE /\ st' = OnEvent(st, event)
                /\ sink' = IF ForwardsToSink(event)
                           THEN Append(sink, [op |-> "WriteStreamEvent", arg |-> event])
                           ELSE sink
                /\ UNCHANGED <<pc, runErr>>
    /\ UNCHANGED <<constVars, runVars, ctxDone, retryVars, waitVars, transportCalls,
                   callObs, waitsDone, cancelAt>>

\* GenerateStream, lines 440-441 and 505: the goroutine returns after its
\* last send; the deferred calls close the response body and the channel
ProducerExit ==
    /\ prod = "running"
    /\ stream = <<>>
    /\ prod' = "exited"
    /\ UNCHANGED <<constVars, runVars, pc, runErr, ctxDone, retryVars, waitVars,
                   stream, st, orphans, received, sink, transportCalls, callObs,
                   waitsDone, cancelAt>>

\* the range over the channel ends when the channel is closed
StreamClosed ==
    /\ pc = "stream"
    /\ prod = "exited"
    /\ RunContinue(FinalFlush(st))
    /\ UNCHANGED <<constVars, ctxDone, retryVars, waitVars, streamVars, sink,
                   transportCalls, callObs, waitsDone, cancelAt>>

(***************************************************************************)
(* Run, lines 92-130: one iteration of the loop over functionCalls, and,   *)
(* after the last one, the append of the user turn.                        *)
(***************************************************************************)
NextCallFromEnd(calls, results) == calls[Len(calls) - Len(results)]

\* line 94: the call the loop takes next
NextCall(calls, results) == calls[Len(results) + 1]

Dispatch ==
    /\ pc = "dispatch"
    /\ Len(resultParts) < Len(functionCalls)
    /\ LET fc == NextCall(functionCalls, resultParts)
       IN  \E outcome \in HandlerOutcomes(fc.name) :
             LET exec == executeTool(fc, outcome)
                 result == ResultOf(exec)
                 results == Append(resultParts, RespPart(fc.name, result))
             IN  /\ sink' = sink \o
                        <<[op |-> "WriteToolCall", arg |-> fc.name],
                          [op |-> "WriteToolResult",
                           arg |-> [name |-> fc.name, result |-> result,
                                    isError |-> exec.err # ""]]>>
                 /\ execLog' = Append(execLog, [name |-> fc.name,
                                                handler |-> exec.handler,
                                                tool |-> exec.tool,
                                                outcome |-> outcome,
                                                err |-> exec.err])
                 /\ resultParts' = results
                 /\ IF Len(results) = Len(functionCalls)
                    THEN /\ contents' = AppendContent(contents, Content("user", results))
                         /\ asArrived' = Append(asArrived, <<>>)
                         /\ turn' = turn + 1
                         /\ pc' = "top"
                    ELSE UNCHANGED <<contents, asArrived, turn, pc>>
    /\ UNCHANGED <<constVars, ctxDone, runErr, modelParts, functionCalls, retryVars,
                   waitVars, streamVars, transportCalls, callObs, waitsDone, cancelAt>>

Next ==
    \/ LoopTop
    \/ Do
    \/ TimerFire
    \/ Cancel
    \/ RecvEvent
    \/ ProducerExit
    \/ StreamClosed
    \/ Dispatch


(***************************************************************************)
(* The backend of the model.                                               *)
(***************************************************************************)
\* the part lists of the responses the backend gives in Spec
ResponseParts ==
    { <<>>,
      <<TextPart("Found 2 files.", "")>>,
      <<CallPart("list_directory", "")>>,
      <<TextPart("Checking.", "sigT"), CallPart("srv__echo", "sigC")>>,
      <<CallPart("nope", ""), CallPart("read_file", "sigC")>>,
      <<CallPart("off__ping", "sigC"), CallPart("read_file", "")>> }

BufferedOf(parts) == OkBuffered(TRUE, GenerateResponse(<<Candidate(parts, "STOP")>>, 7))

\* the same content streamed one part per chunk, the last chunk carrying the
\* usage and the finish reason, then the sentinel
ChunkedLines(parts) ==
    [i \in 1..Len(parts) |->
        DataLine(GenerateResponse(
            <<Candidate(<<parts[i]>>, IF i = Len(parts) THEN "STOP" ELSE "")>>,
            IF i = Len(parts) THEN 7 ELSE 0))]

StreamedOf(parts) == OkStream(Body(ChunkedLines(parts) \o <<SentinelLine>>, <<>>, FALSE))

\* a stream that breaks after its first chunk
BrokenStream ==
    OkStream(Body(ChunkedLines(<<TextPart("Found", "")>>), <<>>, TRUE))

FailureOutcomes ==
    { NetErr,
      HttpError(500, <<>>, ErrBody("internal error", FALSE, <<>>)),
      HttpError(StatusTooManyRequests, <<"2">>, ErrBody("slow down", FALSE, <<>>)),
      HttpError(StatusTooManyRequests, <<>>,
                ErrBody("", TRUE, <<Detail(<<"1", "s">>, <<>>)>>)),
      HttpError(StatusTooManyRequests, <<>>, ErrBody("", TRUE, <<>>)) }

MainOutcomes(streaming) ==
    FailureOutcomes
    \cup (IF streaming
          THEN { StreamedOf(ps) : ps \in ResponseParts } \cup {BrokenStream}
          ELSE { BufferedOf(ps) : ps \in ResponseParts }
               \cup { OkBuffered(FALSE, NoChunk),
                      \* a response of two candidates
                      OkBuffered(TRUE, GenerateResponse(
                          <<Candidate(<<TextPart("Two ways.", "")>>, ""),
                            Candidate(<<CallPart("read_file", "sigC")>>, "STOP")>>,
                          7)) })

(***************************************************************************)
(* Spec: one invocation of Run on the request run() built (root.go lines   *)
(* 484-497: the user's input is the only turn).                            *)
(***************************************************************************)
InitRun ==
    /\ turn = 0
    /\ contents = <<Content("user", <<TextPart("list files", "")>>)>>
    /\ ctxDone = FALSE
    /\ runErr = Running
    /\ modelParts = <<>>
    /\ functionCalls = <<>>
    /\ resultParts = <<>>
    /\ httpReq = NoHTTPRequest
    /\ origURL = <<>>
    /\ origHeaders = 0
    /\ bodyBytes = <<>>
    /\ heap = <<>>
    /\ lastErr = NoBody
    /\ delay = 0
    /\ stream = <<>>
    /\ st = NewStreamState
    /\ prod = "none"
    /\ orphans = 0
    /\ received = <<>>
    /\ sink = <<>>
    /\ transportCalls = 0
    /\ httpSent = 0
    /\ firstReq = NoRequest
    /\ lastReq = NoRequest
    /\ waitsDone = 0
    /\ asArrived = <<<<>>>>
    /\ execLog = <<>>
    /\ cancelAt = NotCancelled

Init ==
    /\ cfg \in [MaxTurns : 0..MaxTurnsBound, Streaming : BOOLEAN]
    /\ env = [outcomes |-> MainOutcomes(cfg.Streaming), mutate |-> BOOLEAN]
    /\ InitRun
    /\ ext = NoExt
    /\ signal = [isREPL |-> FALSE, rootDone |-> FALSE]
    /\ pc = "top"
    /\ attempt = 0
    /\ lastResp = NoResponse

Spec == Init /\ [][Next]_vars


(***************************************************************************)
(* SpecDelay: retryDelay applied to the 429 responses of a bounded set.    *)
(***************************************************************************)
RetryAfterValues ==
    { <<>>, <<"7">>, <<"0", ".", "3">>, <<"0">>, <<"-", "1">>, <<"W", "e", "d">> }

RetryDelayValues == { <<>>, <<"1", "s">>, <<"0", "s">>, <<"x">> }

QuotaResetDelayValues == { <<>>, <<"7", "5", "0", "ms">>, <<"-", "1", "s">> }

DetailValues ==
    { Detail(rd, qrd) : rd \in RetryDelayValues, qrd \in QuotaResetDelayValues }

RateLimitBodies ==
    { ErrBody("", TRUE, ds) : ds \in SeqsUpTo(DetailValues, MaxDetails) }
    \cup { ErrBody("<html>busy</html>", FALSE, <<>>) }

InitDelay ==
    /\ cfg = [MaxTurns |-> 1, Streaming |-> FALSE]
    /\ env = [outcomes |-> {}, mutate |-> {}]
    /\ InitRun
    /\ ext = NoExt
    /\ signal = [isREPL |-> FALSE, rootDone |-> FALSE]
    /\ pc = "http"
    /\ attempt \in 0..maxRetries
    /\ lastResp \in { HttpError(StatusTooManyRequests, ra, body) :
                         ra \in RetryAfterValues, body \in RateLimitBodies }

\* doRequestWithRetry, line 83, for the 429 response lastResp
ApplyRetryDelay ==
    /\ pc = "http"
    /\ lastResp.status = StatusTooManyRequests
    /\ delay' = retryDelay(lastResp.body, lastResp.ra, attempt)
    /\ pc' = "wait"
    /\ UNCHANGED <<constVars, runVars, ctxDone, runErr, retryVars, lastErr, streamVars,
                   sink, transportCalls, callObs, waitsDone, cancelAt>>

NextDelay == ApplyRetryDelay

SpecDelay == InitDelay /\ [][NextDelay]_vars


(***************************************************************************)
(* SpecRecon: one streaming turn of Run against a backend whose streams    *)
(* carry every part list of up to MaxEvents parts, one part per chunk and  *)
(* closed by the sentinel, or all parts in one chunk and closed by EOF.    *)
(***************************************************************************)
ReconParts ==
    { TextPart("a", ""),
      TextPart("b", "s1"),
      CallPart("nope", ""),
      Part("c", <<[name |-> "off__ping"]>>, NoResp, "s2"),
      \* a part that holds a token and nothing else
      Part("", NoCall, NoResp, "s3") }

OneChunk(parts) ==
    OkStream(Body(<<DataLine(GenerateResponse(<<Candidate(parts, "STOP")>>, 7))>>,
                  <<>>, FALSE))

ReconStreams ==
    { StreamedOf(ps) : ps \in SeqsUpTo(ReconParts, MaxEvents) }
    \cup { OneChunk(ps) : ps \in SeqsUpTo(ReconParts, MaxEvents) }

\* streams whose usage and finish reason come before the last chunk, come
\* twice, or do not come at all (the second has a chunk of two candidates);
\* streams with lines that are no event lines, with payloads that do not
\* decode, with lines after the sentinel, one whose read fails, and one
\* whose last event line ends with the body, without newline
EdgeStreams ==
    LET chunk(text, fin, usage) ==
            DataLine(GenerateResponse(<<Candidate(<<TextPart(text, "")>>, fin)>>, usage))
    IN  { OkStream(Body(<<chunk("a", "STOP", 7), chunk("b", "", 0)>>, <<>>, FALSE)),
          OkStream(Body(<<chunk("a", "", 3),
                          DataLine(GenerateResponse(
                              <<Candidate(<<TextPart("b", "")>>, "MAX_TOKENS"),
                                Candidate(<<CallPart("nope", "")>>, "")>>, 7)),
                          chunk("c", "", 0), SentinelLine>>, <<>>, FALSE)),
          OkStream(Body(<<chunk("a", "", 0), chunk("b", "", 0)>>, <<>>, FALSE)),
          OkStream(Body(<<OtherLine, chunk("a", "", 0), BadLine, OtherLine,
                          chunk("b", "STOP", 7), SentinelLine, chunk("c", "", 9),
                          BadLine>>, <<>>, TRUE)),
          OkStream(Body(<<BadLine, chunk("a", "", 0), OtherLine>>, <<>>, TRUE)),
          OkStream(Body(<<chunk("a", "", 0)>>, <<chunk("b", "STOP", 7)>>, FALSE)) }

\* a backend that answers with one of the streams, or one that is rate
\* limited and breaks the stream it gives
ReconBackends ==
    { {o, NetErr} : o \in ReconStreams \cup EdgeStreams }
    \cup { { BrokenStream,
             HttpError(StatusTooManyRequests, <<>>, ErrBody("", TRUE, <<>>)) } }

InitRecon ==
    /\ cfg = [MaxTurns |-> 1, Streaming |-> TRUE]
    /\ env \in { [outcomes |-> os, mutate |-> {FALSE}] : os \in ReconBackends }
    /\ InitRun
    /\ ext = NoExt
    /\ signal = [isREPL |-> FALSE, rootDone |-> FALSE]
    /\ pc = "top"
    /\ attempt = 0
    /\ lastResp = NoResponse

SpecRecon == InitRecon /\ [][Next]_vars


(***************************************************************************)
(* SpecDispatch: executeTool of a Loop whose registry was filled through   *)
(* NewRegistry and RegisterMCPTool with names of a bounded set, applied to *)
(* one call.                                                               *)
(***************************************************************************)
RegistryNames == {"read_file", "srv__echo"}

CallNameValues == RegistryNames \cup {"READ_FILE"}

LoopValues ==
    { LoopOf(bs, [n \in ms |-> [ServerName |-> "srv", ToolName |-> n]], cs) :
        bs \in SUBSET RegistryNames, ms \in SUBSET RegistryNames, cs \in SUBSET {"srv"} }

InitDispatch ==
    /\ cfg = [MaxTurns |-> 1, Streaming |-> FALSE]
    /\ env \in { [outcomes |-> {}, mutate |-> {}, loop |-> l] : l \in LoopValues }
    /\ InitRun
    /\ ext = NoExt
    /\ signal = [isREPL |-> FALSE, rootDone |-> FALSE]
    /\ pc = "dispatch"
    /\ attempt = 0
    /\ lastResp = NoResponse

\* Run, line 100, for the call fc of a response
ApplyExecuteTool ==
    /\ pc = "dispatch"
    /\ execLog = <<>>
    /\ \E name \in CallNameValues :
         \E outcome \in HandlerOutcomesOf(env.loop, name) :
           LET exec == executeToolOf(env.loop, [name |-> name], outcome)
           IN  /\ execLog' = <<[name |-> name, handler |-> exec.handler,
                                tool |-> exec.tool,
                                outcome |-> outcome, err |-> exec.err]>>
               /\ resultParts' = <<RespPart(name, ResultOf(exec))>>
    /\ pc' = "done"
    /\ UNCHANGED <<constVars, turn, contents, modelParts, functionCalls, asArrived,
                   ctxDone, runErr, retryVars, waitVars, streamVars, sink,
                   transportCalls, callObs, waitsDone, cancelAt>>

NextDispatch == ApplyExecuteTool

SpecDispatch == InitDispatch /\ [][NextDispatch]_vars


(***************************************************************************)
(* SpecRepl: run() around Run, in single-shot mode (root.go lines 484-497)  *)
(* and as the interactive loop (lines 448-481), with the signal handler of *)
(* lines 102-110.  In the loop each line read opens a turn on the same     *)
(* request and the same client; the first line has been read.              *)
(***************************************************************************)
MaxInputs == 2          \* lines the user types in SpecRepl

IsUserInput(c) == c.role = "user" /\ c.parts # <<>> /\ c.parts[1].text # ""

UserInputs(cs) == Len(SelectSeq(cs, IsUserInput))

ReplOutcomes ==
    { BrokenStream,
      StreamedOf(<<TextPart("Found 2 files.", "")>>),
      StreamedOf(<<CallPart("read_file", "sigC")>>),
      HttpError(StatusTooManyRequests, <<>>, ErrBody("", TRUE, <<>>)) }

InitRepl ==
    /\ cfg = [MaxTurns |-> MaxTurnsBound, Streaming |-> TRUE]
    /\ env = [outcomes |-> ReplOutcomes, mutate |-> {FALSE}]
    /\ InitRun
    /\ ext = NoExt
    /\ signal \in [isREPL : BOOLEAN, rootDone : {FALSE}]
    /\ pc = "top"
    /\ attempt = 0
    /\ lastResp = NoResponse

\* root.go lines 471-476: runTurn returned; the context of the turn is
\* cancelled and an error is written, and the loop goes back to Readline
TurnEnd ==
    /\ signal.isREPL
    /\ pc = "done"
    /\ pc' = "prompt"
    /\ ctxDone' = TRUE
    /\ sink' = IF runErr # NilErr
               THEN Append(sink, [op |-> "WriteError", arg |-> runErr])
               ELSE sink
    /\ UNCHANGED <<constVars, runVars, runErr, retryVars, waitVars, streamVars,
                   transportCalls, callObs, waitsDone, cancelAt>>

\* root.go lines 449-470, for a line that is neither empty nor a command, and
\* the entry of Run (its locals are fresh); a goroutine of an earlier turn
\* that has not returned is still there
ReadLine ==
    /\ pc = "prompt"
    /\ UserInputs(contents) < MaxInputs
    /\ contents' = AppendContent(contents, Content("user", <<TextPart("and then?", "")>>))
    /\ asArrived' = Append(asArrived, <<>>)
    /\ ctxDone' = FALSE
    /\ cancelAt' = NotCancelled
    /\ pc' = "top"
    /\ runErr' = Running
    /\ turn' = 0
    /\ modelParts' = <<>>
    /\ functionCalls' = <<>>
    /\ resultParts' = <<>>
    /\ execLog' = <<>>
    /\ st' = NewStreamState
    /\ transportCalls' = 0
    /\ httpSent' = 0
    /\ firstReq' = NoRequest
    /\ lastReq' = NoRequest
    /\ lastResp' = NoResponse
    /\ waitsDone' = 0
    /\ UNCHANGED <<constVars, retryVars, waitVars, stream, prod, orphans, received, sink>>

\* root.go lines 104-110: the goroutine that waits for SIGINT or SIGTERM calls
\* the cancel of the context of run().  Single-shot mode runs the turn on
\* that context (line 496); the REPL runs each turn on a context it derives
\* from context.Background() (line 469)
Signal ==
    /\ ~signal.rootDone
    /\ signal' = [signal EXCEPT !.rootDone = TRUE]
    /\ IF ~signal.isREPL /\ ~ctxDone /\ pc # "done"
       THEN CancelCtx
       ELSE UNCHANGED <<ctxDone, cancelAt, pc, runErr, stream>>
    /\ UNCHANGED <<cfg, env, ext, runVars, retryVars, waitVars, st, prod, orphans,
                   received, sink, transportCalls, callObs, waitsDone>>

NextRepl ==
    \/ Next
    \/ TurnEnd
    \/ ReadLine
    \/ Signal

SpecRepl == InitRepl /\ [][NextRepl]_vars


(***************************************************************************)
(* SpecEnabled: isEnabled (extension.go lines 172-213) applied to the      *)
(* paths and enablement configs of a bounded set.  A string is the         *)
(* sequence of its characters; an enablement config is                     *)
(* [isNil, entries], entries mapping an extension name to its Overrides.   *)
(* filepath.ToSlash is the identity where the separator is "/".            *)
(***************************************************************************)
MaxRules == 3           \* length of the Overrides list of an extension

\* extension.go lines 207-213
normalizePath(p) ==
    IF p # <<>> /\ p[Len(p)] = "/" THEN p ELSE Append(p, "/")

\* extension.go lines 198-205
matchesPath(pattern, path) ==
    LET HasPrefix(s, prefix) ==
            Len(prefix) <= Len(s) /\ SubSeq(s, 1, Len(prefix)) = prefix
        pat == normalizePath(pattern)
    IN  IF Len(pat) >= 2 /\ SubSeq(pat, Len(pat) - 1, Len(pat)) = <<"*", "/">>
        THEN HasPrefix(path, SubSeq(pat, 1, Len(pat) - 2))
        ELSE path = pat \/ HasPrefix(path, pat)

\* an isEnabled in which any matching disable rule decides
isEnabledAnyDisable(extName, currentPath, enablement) ==
    \/ enablement.isNil
    \/ extName \notin DOMAIN enablement.entries
    \/ ~\E i \in 1..Len(enablement.entries[extName]) :
           LET rule == enablement.entries[extName][i]
           IN  /\ rule # <<>>
               /\ rule[1] = "!"
               /\ matchesPath(Tail(rule), normalizePath(currentPath))

\* extension.go lines 172-196; enabled[i] is the local after i rules
isEnabled(extName, currentPath, enablement) ==
    IF enablement.isNil THEN TRUE
    ELSE IF extName \notin DOMAIN enablement.entries THEN TRUE
    ELSE LET rules == enablement.entries[extName]
             normalizedPath == normalizePath(currentPath)
             enabled[i \in 0..Len(rules)] ==
                 IF i = 0 THEN TRUE
                 ELSE LET rule == rules[i]
                          isDisable == rule # <<>> /\ rule[1] = "!"
                          baseRule == IF isDisable THEN Tail(rule) ELSE rule
                      IN  IF matchesPath(baseRule, normalizedPath)
                          THEN ~isDisable
                          ELSE enabled[i - 1]
         IN  enabled[Len(rules)]

\* the calls of isEnabled in SpecEnabled: [extName, path, enablement]
EnabledInputs ==
    LET paths == { <<"/", "u", "/", "p">>, <<"/", "u", "/", "p", "/", "s">>,
                   <<"/", "u", "p", "/">>, <<"/", "o">> }
        rules == { <<"/", "u", "/", "*">>, <<"!", "/", "u", "/", "p">>,
                   <<"/", "u", "/", "p", "/", "s">>, <<"!", "/", "u", "*">>,
                   <<"!", "/", "x", "/">> }
    IN  { [extName |-> "test", path |-> p, enablement |-> e] :
            p \in paths,
            e \in { [isNil |-> TRUE, entries |-> <<>>] }
                  \cup { [isNil |-> FALSE, entries |-> [n \in {name} |-> rs]] :
                           name \in {"test", "other"},
                           rs \in SeqsUpTo(rules, MaxRules) } }

InitEnabled ==
    /\ cfg = [MaxTurns |-> 1, Streaming |-> FALSE]
    /\ env = [outcomes |-> {}, mutate |-> {}]
    /\ InitRun
    /\ ext \in { [call |-> c, returned |-> FALSE, enabled |-> TRUE] : c \in EnabledInputs }
    /\ signal = [isREPL |-> FALSE, rootDone |-> FALSE]
    /\ pc = "done"
    /\ attempt = 0
    /\ lastResp = NoResponse

\* LoadAll, extension.go line 71, for the call ext.call
ApplyIsEnabled ==
    /\ ~ext.returned
    /\ ext' = [ext EXCEPT !.returned = TRUE,
                          !.enabled = isEnabled(ext.call.extName, ext.call.path,
                                                ext.call.enablement)]
    /\ UNCHANGED <<cfg, env, signal, pc, runVars, ctxDone, runErr, retryVars, waitVars,
                   streamVars, sink, transportCalls, callObs, waitsDone, cancelAt>>

NextEnabled == ApplyIsEnabled

SpecEnabled == InitEnabled /\ [][NextEnabled]_vars


(***************************************************************************)
(* Properties.                                                             *)
(***************************************************************************)
IsCallPart(p) == p.fc # NoCall
IsRespPart(p) == p.fr # NoResp
CallNames(parts) ==
    LET calls == FunctionCalls(parts) IN [i \in 1..Len(calls) |-> calls[i].name]
RespNames(parts) ==
    LET rs == SelectSeq(parts, IsRespPart) IN [i \in 1..Len(rs) |-> rs[i].fr[1].name]

IsToolCallWrite(e) == e.op = "WriteToolCall"
IsToolResultWrite(e) == e.op = "WriteToolResult"
SinkToolCalls ==
    LET w == SelectSeq(sink, IsToolCallWrite) IN [i \in 1..Len(w) |-> w[i].arg]
SinkToolResults ==
    LET w == SelectSeq(sink, IsToolResultWrite) IN [i \in 1..Len(w) |-> w[i].arg.name]

RECURSIVE AnsweredNames(_)
AnsweredNames(cs) ==
    IF cs = <<>> THEN <<>>
    ELSE (IF Head(cs).role = "user" THEN RespNames(Head(cs).parts) ELSE <<>>)
         \o AnsweredNames(Tail(cs))

ModelTurnsHaveCalls ==
    \A i \in 1..Len(contents) :
        contents[i].role = "model" => HasFunctionCalls(contents[i].parts)

\* the parts of a 200 response as the backend sent them
BackendParts(o) ==
    IF cfg.Streaming
    THEN LET ls == LinesRead(o.payload.sbody.lines)
             data == SelectSeq(ls, LAMBDA l : l.kind = "data")
         IN  Flatten([i \in 1..Len(data) |-> BufferedParts(data[i].chunk.candidates)])
    ELSE BufferedParts(o.payload.resp.candidates)

\* the current transport call got a 200 and its response was read to the end
ResponseComplete ==
    /\ lastResp.kind = "http"
    /\ lastResp.status = StatusOK
    /\ pc \notin {"stream", "http", "wait"}
    /\ IF cfg.Streaming
       THEN /\ received[Len(received)] = GoroutineEvents(lastResp.payload.sbody)
            /\ \A i \in 1..Len(received[Len(received)]) :
                   received[Len(received)][i].type # "error"
       ELSE lastResp.payload.decodes

\* C1: Turn budget.  Run makes at most MaxTurns transport calls; it returns
\* the budget error only after exactly MaxTurns calls, each answered by a
\* response with a function call, and the error names MaxTurns; success is
\* returned only for a response without function call, so that a backend
\* that always asks for a tool, with no transport failure and no
\* cancellation, ends in the budget error.  Holds for both modes.
C1_TurnBudget ==
    /\ transportCalls <= cfg.MaxTurns
    /\ pc = "top" => transportCalls = turn
    /\ runErr.kind = "maxturns" =>
          /\ runErr.n = cfg.MaxTurns
          /\ transportCalls = cfg.MaxTurns
          /\ turn = cfg.MaxTurns
          /\ Len(contents) = 1 + 2 * cfg.MaxTurns
          /\ ModelTurnsHaveCalls
    /\ (pc = "done" /\ turn >= cfg.MaxTurns) => runErr.kind = "maxturns"
    /\ pc = "done" =>
          runErr.kind \in {"maxturns", "nil", "ctx", "send", "api", "ratelimited",
                           "decode", "stream"}
    /\ runErr.kind = "nil" => ~HasFunctionCalls(modelParts)

C1_Witness ==
    /\ runErr.kind = "maxturns"
    /\ cfg.MaxTurns = 2
    /\ cfg.Streaming
    /\ transportCalls = 2
    /\ cancelAt = NotCancelled

\* C2: Retry ceiling.  A transport call never sends more than 1 + maxRetries
\* requests; it fails as rate limited only after exactly 1 + maxRetries
\* requests, all answered 429, with the body of the last 429 in the error;
\* a call whose latest response is a 429 and that was not cancelled has
\* either not returned or returned that error; a 200 ends the retrying and
\* its response is what the caller gets.
C2_RetryCeiling ==
    /\ httpSent <= maxRetries + 1
    /\ pc \in {"http", "wait"} => attempt <= maxRetries
    /\ pc = "wait" => httpSent = attempt + 1 /\ lastResp.status = StatusTooManyRequests
    /\ runErr.kind = "ratelimited" =>
          /\ httpSent = maxRetries + 1
          /\ waitsDone = maxRetries + 1
          /\ runErr.n = maxRetries
          /\ lastResp.status = StatusTooManyRequests
          /\ runErr.body = lastResp.body
    /\ (pc = "done" /\ lastResp.kind = "http" /\ lastResp.status = StatusTooManyRequests
        /\ ~ctxDone) =>
          runErr.kind = "ratelimited"
    /\ (lastResp.kind = "http" /\ lastResp.status = StatusOK) =>
          /\ pc \notin {"http", "wait"}
          /\ runErr.kind \notin {"ratelimited", "api", "send"}
          /\ (~cfg.Streaming /\ lastResp.payload.decodes) =>
                modelParts = BufferedParts(lastResp.payload.resp.candidates)
          /\ (cfg.Streaming /\ pc = "stream" /\ ~ctxDone) =>
                received[Len(received)] \o stream
                    = GoroutineEvents(lastResp.payload.sbody)

C2_Witness ==
    /\ runErr.kind = "ratelimited"
    /\ httpSent = 6
    /\ runErr.body = ErrBody("slow down", FALSE, <<>>)

\* C4: A response that is neither 200 nor 429 ends the call at once with an
\* error carrying its status and body: it is the answer to the one request
\* of its attempt, no wait and no request follow it.  A send failure ends
\* the call in the same way.
C4_FatalStatus ==
    /\ (lastResp.kind = "http"
        /\ lastResp.status \notin {StatusOK, StatusTooManyRequests}) =>
          /\ pc = "done"
          /\ runErr.kind = "api"
          /\ runErr.n = lastResp.status
          /\ runErr.body = lastResp.body
          /\ httpSent = attempt + 1
          /\ waitsDone = attempt
    /\ runErr.kind = "api" =>
          lastResp.kind = "http" /\ lastResp.status \notin {StatusOK, StatusTooManyRequests}
    /\ lastResp.kind = "neterr" =>
          /\ pc = "done"
          /\ runErr.kind = "send"
          /\ httpSent = attempt + 1
          /\ waitsDone = attempt

C4_Witness ==
    /\ runErr.kind = "api"
    /\ runErr.n = 500
    /\ attempt = 2
    /\ httpSent = 3

\* C5: Retry replay.  Every request a transport call sends equals the first
\* one it sent: same method, URL, header set and body bytes, the body being
\* the marshalled request; what a transport wrote into the header map of one
\* attempt is in no later request.
C5_RetryReplay ==
    httpSent >= 1 =>
        /\ lastReq.method = firstReq.method
        /\ lastReq.url = firstReq.url
        /\ lastReq.headers = firstReq.headers
        /\ lastReq.body = firstReq.body
        /\ lastReq.method = "POST"
        /\ lastReq.url = Endpoint(cfg.Streaming)
        /\ <<"Authorization", "Bearer t">> \notin lastReq.headers
        /\ pc \in {"http", "wait"} =>
              /\ lastReq.body = bodyBytes
              /\ heap[origHeaders] = firstReq.headers
              /\ pc = "http" => Wire(httpReq, heap) = firstReq

C5_Witness ==
    /\ pc = "wait"
    /\ httpSent = 3
    /\ <<"Authorization", "Bearer t">> \in heap[httpReq.header]
    /\ lastReq = firstReq
    /\ lastReq.body # <<>>

\* C6: A cancellation that fires during the wait after a 429 makes the call
\* return the cancellation error at that moment: the wait is not completed
\* and no request is sent after it.
C6_CancellableWait ==
    cancelAt.pc = "wait" =>
        /\ pc = "done"
        /\ runErr = CtxErr
        /\ httpSent = cancelAt.sent
        /\ waitsDone = attempt
        /\ lastResp.status = StatusTooManyRequests

C6_Witness ==
    /\ cancelAt.pc = "wait"
    /\ runErr = CtxErr
    /\ attempt = 1
    /\ httpSent = 2

\* C7: Termination.  Run returns success exactly for a response without
\* function call, at the first such response: the history holds no model
\* turn without a call, every earlier turn added a model and a user turn, a
\* complete response without call leaves Run returned with success; when it
\* is the first response, one transport call was made, no tool was
\* dispatched and the history is as it was.
C7_Termination ==
    /\ ModelTurnsHaveCalls
    /\ runErr.kind = "nil" =>
          /\ pc = "done"
          /\ ~HasFunctionCalls(modelParts)
          /\ transportCalls = turn + 1
          /\ Len(contents) = 1 + 2 * turn
          /\ Len(SinkToolCalls) = Len(AnsweredNames(contents))
    /\ (runErr.kind = "nil" /\ transportCalls = 1) =>
          /\ SinkToolCalls = <<>>
          /\ execLog = <<>>
          /\ Len(contents) = 1
    /\ (ResponseComplete /\ ~HasFunctionCalls(BackendParts(lastResp))) =>
          pc = "done" /\ runErr.kind = "nil"

C7_Witness ==
    /\ runErr.kind = "nil"
    /\ transportCalls = 1
    /\ modelParts # <<>>

C7_WitnessLater ==
    /\ runErr.kind = "nil"
    /\ transportCalls = 2

\* C8: Continuation tokens.  Every FunctionCall part of the history has a
\* non-empty token; a model turn is stored part for part as callModel
\* returned it, except that a call part without token has the placeholder;
\* a call part with a token and every part that is not a call (the text
\* parts) are stored unchanged.
C8_ThoughtSignatures ==
    /\ Len(asArrived) = Len(contents)
    /\ \A i \in 1..Len(contents) :
          /\ \A j \in 1..Len(contents[i].parts) :
                IsCallPart(contents[i].parts[j]) => contents[i].parts[j].sig # ""
          /\ contents[i].role = "model" =>
                /\ Len(contents[i].parts) = Len(asArrived[i])
                /\ \A j \in 1..Len(asArrived[i]) :
                      LET a == asArrived[i][j]
                          p == contents[i].parts[j]
                      IN  /\ p.text = a.text /\ p.fc = a.fc /\ p.fr = a.fr
                          /\ (IsCallPart(a) /\ a.sig = "") =>
                                p.sig = "skip_thought_signature_validator"
                          /\ (IsCallPart(a) /\ a.sig # "") => p.sig = a.sig
                          /\ ~IsCallPart(a) => p.sig = a.sig
    /\ (ResponseComplete /\ pc \in {"dispatch", "top"} /\ turn + Len(contents) > 1) =>
          LET sent == SelectSeq(BackendParts(lastResp), IsCallPart)
              kept == SelectSeq(contents[IF pc = "dispatch" THEN Len(contents)
                                         ELSE Len(contents) - 1].parts, IsCallPart)
          IN  /\ Len(kept) = Len(sent)
              /\ \A j \in 1..Len(sent) :
                    /\ kept[j].fc = sent[j].fc
                    /\ kept[j].sig = IF sent[j].sig = ""
                                     THEN "skip_thought_signature_validator"
                                     ELSE sent[j].sig

C8_Witness ==
    /\ Len(contents) >= 2
    /\ contents[2].parts = <<CallPart("nope", "skip_thought_signature_validator"),
                             CallPart("read_file", "sigC")>>
    /\ asArrived[2] = <<CallPart("nope", ""), CallPart("read_file", "sigC")>>

\* C10: Dispatch order.  The calls of a turn are executed one per loop
\* iteration in arrival order, each exactly once; when all are done one user
\* turn follows the model turn, holding one FunctionResponse part per call,
\* in the same order and under the call's name.
C10_DispatchOrder ==
    /\ pc = "dispatch" =>
          /\ contents[Len(contents)].role = "model"
          /\ functionCalls = FunctionCalls(contents[Len(contents)].parts)
          /\ Len(resultParts) < Len(functionCalls)
          /\ RespNames(resultParts) =
                SubSeq(CallNames(contents[Len(contents)].parts), 1, Len(resultParts))
    /\ pc # "dispatch" => contents[Len(contents)].role = "user"
    /\ Len(execLog) = Len(resultParts)
    /\ \A k \in 1..Len(execLog) : execLog[k].name = functionCalls[k].name
    /\ \A i \in 1..Len(contents) :
          /\ (contents[i].role = "model" /\ i < Len(contents)) =>
                /\ contents[i + 1].role = "user"
                /\ Len(contents[i + 1].parts) = Len(FunctionCalls(contents[i].parts))
                /\ \A j \in 1..Len(contents[i + 1].parts) :
                      IsRespPart(contents[i + 1].parts[j])
                /\ RespNames(contents[i + 1].parts) = CallNames(contents[i].parts)
          /\ (contents[i].role = "user" /\ i > 1) => contents[i - 1].role = "model"
    /\ SinkToolResults =
          AnsweredNames(contents)
          \o (IF pc = "dispatch" THEN RespNames(resultParts) ELSE <<>>)
    /\ SinkToolCalls = SinkToolResults

C10_Witness ==
    /\ pc = "top"
    /\ turn = 1
    /\ Len(contents) = 3
    /\ RespNames(contents[3].parts) = <<"nope", "read_file">>
    /\ Len(execLog) = 2

\* the values of SpecDelay written out, in microseconds (0: not usable)
RetryAfterMicros(ra) ==
    CASE ra = <<"7">> -> 7000000
      [] ra = <<"0", ".", "3">> -> 300000
      [] OTHER -> 0

DelayMicros(s) ==
    CASE s = <<"1", "s">> -> 1000000
      [] s = <<"7", "5", "0", "ms">> -> 750000
      [] OTHER -> 0

EntryMicros(d) ==
    IF DelayMicros(d.retryDelay) > 0 THEN DelayMicros(d.retryDelay)
    ELSE DelayMicros(d.quotaResetDelay)

UsableEntries(body) ==
    IF body.json THEN { i \in 1..Len(body.details) : EntryMicros(body.details[i]) > 0 }
    ELSE {}

BackoffMicros(a) ==
    CASE a = 0 -> 500000 [] a = 1 -> 1000000 [] a = 2 -> 2000000
      [] a = 3 -> 4000000 [] a = 4 -> 8000000 [] OTHER -> 16000000

SelectedDelay(resp, a) ==
    IF RetryAfterMicros(resp.ra) > 0 THEN RetryAfterMicros(resp.ra)
    ELSE IF UsableEntries(resp.body) # {}
    THEN EntryMicros(resp.body.details[
             CHOOSE i \in UsableEntries(resp.body) :
                 \A j \in UsableEntries(resp.body) : i <= j])
    ELSE BackoffMicros(a)

\* C3: Delay selection.  The wait after a 429 is taken from the first usable
\* source: the Retry-After header when it is a positive number of seconds;
\* else, for a body that is JSON, the first entry of the detail list, in
\* list order, that has a positive retryDelay or a positive quotaResetDelay,
\* the retryDelay of that entry before its quotaResetDelay; else the
\* backoff of 500 ms doubled per attempt.  An absent, unparsable, zero or
\* negative value is passed over.
C3_DelaySelection ==
    pc = "wait" =>
        /\ lastResp.status = StatusTooManyRequests
        /\ delay = SelectedDelay(lastResp, attempt)
        /\ delay > 0

C3_Witness ==
    /\ pc = "wait"
    /\ lastResp.ra = <<"0">>
    /\ lastResp.body.details =
          <<Detail(<<"x">>, <<"-", "1", "s">>), Detail(<<"0", "s">>, <<"7", "5", "0", "ms">>)>>
    /\ delay = 750000

C3_WitnessHeaderFirst ==
    /\ pc = "wait"
    /\ lastResp.ra = <<"0", ".", "3">>
    /\ lastResp.body.details = <<Detail(<<"1", "s">>, <<>>)>>
    /\ delay = 300000

C3_WitnessBackoff ==
    /\ pc = "wait"
    /\ lastResp.ra = <<"W", "e", "d">>
    /\ ~lastResp.body.json
    /\ attempt = 3
    /\ delay = 4000000

\* the parts of a sequence of events, segment by segment
RECURSIVE Segments(_, _)
Segments(events, text) ==
    IF events = <<>>
    THEN IF text = "" THEN <<>> ELSE <<TextPart(text, "")>>
    ELSE IF Head(events).type = "content"
    THEN Segments(Tail(events), text \o Head(events).text)
    ELSE IF Head(events).type = "tool_call"
    THEN (IF text = "" THEN <<>> ELSE <<TextPart(text, "")>>)
         \o <<Part("", Head(events).toolCall, NoResp, "")>>
         \o Segments(Tail(events), "")
    ELSE Segments(Tail(events), text)

\* the response a buffered call gets for the same content
EquivalentResponse(events) ==
    GenerateResponse(<<Candidate(Segments(events, ""), "STOP")>>, 7)

Shape(parts) == [i \in 1..Len(parts) |-> [text |-> parts[i].text, fc |-> parts[i].fc]]

StreamedEvents == received[Len(received)] \o stream

StreamReturned ==
    /\ cfg.Streaming
    /\ lastResp.kind = "http"
    /\ lastResp.status = StatusOK
    /\ pc \notin {"stream", "http", "wait"}
    /\ runErr.kind # "stream"

\* C9: Streaming reconstruction.  The parts callModelStreaming returns for a
\* stream of content and tool_call events are the parts callModelNonStreaming
\* collects from a response that holds the same content segment by segment:
\* one text part per maximal run of content events, its text the
\* concatenation of theirs, and one call part per tool_call event, in the
\* order of the events; while the stream is read, the parts rebuilt so far
\* are those of the events consumed.
C9_StreamingReconstruction ==
    /\ (cfg.Streaming /\ pc = "stream") =>
          Shape(FinalFlush(st)) =
              Shape(BufferedParts(EquivalentResponse(
                  SubSeq(StreamedEvents, 1, Len(StreamedEvents) - Len(stream))).candidates))
    /\ StreamReturned =>
          /\ Shape(modelParts) =
                Shape(BufferedParts(EquivalentResponse(StreamedEvents).candidates))
          /\ Len(modelParts) = Len(Segments(StreamedEvents, ""))

C9_Witness ==
    /\ StreamReturned
    /\ Len(SelectSeq(StreamedEvents, LAMBDA e : e.type = "content")) = 3
    /\ Shape(modelParts) =
          <<[text |-> "ab", fc |-> NoCall],
            [text |-> "", fc |-> <<[name |-> "nope"]>>],
            [text |-> "a", fc |-> NoCall]>>

HasErrorField(m) == \E i \in 1..Len(m) : m[i][1] = "error"

ErrorOf(m) == (CHOOSE i \in 1..Len(m) : m[i][1] = "error")

ToolErrors ==
    { "tool failed", "call failed", "unknown tool: nope", "MCP server \"off\" not connected" }

\* C11: Tool error isolation.  A call whose handler returned an error (a
\* failed execution, an unknown tool, a server that is not connected) is
\* answered by a FunctionResponse part whose result map has the field
\* "error" with the error's text; the dispatch goes on with the calls that
\* remain, the turn ends with its user turn and the loop at its top, and no
\* error Run returns is a tool's.
C11_ToolErrorIsolation ==
    /\ \A k \in 1..Len(execLog) :
          execLog[k].err # "" =>
              /\ execLog[k].err \in ToolErrors
              /\ resultParts[k].fr[1].name = execLog[k].name
              /\ HasErrorField(resultParts[k].fr[1].response)
              /\ resultParts[k].fr[1].response[ErrorOf(resultParts[k].fr[1].response)][2]
                    = execLog[k].err
    /\ pc = "dispatch" =>
          /\ runErr = Running
          /\ Len(execLog) < Len(functionCalls)
          /\ ENABLED Dispatch
    /\ (execLog # <<>> /\ Len(execLog) = Len(functionCalls)) =>
          /\ contents[Len(contents)].parts = resultParts
          /\ turn >= 1
          /\ (pc = "done" /\ ~ctxDone /\ cancelAt = NotCancelled /\ transportCalls = turn)
                => runErr.kind = "maxturns"
    /\ runErr.cause \notin ToolErrors
    /\ runErr.kind \in {"running", "nil", "ctx", "send", "api", "ratelimited", "decode",
                        "stream", "maxturns"}

C11_Witness ==
    /\ pc = "http"
    /\ turn = 1
    /\ transportCalls = 2
    /\ Len(execLog) = 2
    /\ execLog[1].err = "unknown tool: nope"
    /\ execLog[2].err = "tool failed"
    /\ contents[3].parts =
          <<RespPart("nope", << <<"error", "unknown tool: nope">> >>),
            RespPart("read_file", << <<"error", "tool failed">> >>)>>

\* the WriteToolResult calls the formatter got for the executions of execLog
TurnToolResults ==
    LET w == SelectSeq(sink, IsToolResultWrite)
    IN  SubSeq(w, Len(w) - Len(execLog) + 1, Len(w))

\* C12: Every built-in call whose tool reports failure, by a ToolResult with
\* IsError set (outcome "soft", what errorResult builds) or by a returned
\* error (outcome "fail"), is written to the formatter by WriteToolResult
\* with isError = TRUE.
C12_BuiltinFailureFlagged ==
    \A k \in 1..Len(execLog) :
        (execLog[k].handler = "builtin" /\ execLog[k].outcome \in {"soft", "fail"}) =>
            /\ TurnToolResults[k].arg.name = execLog[k].name
            /\ TurnToolResults[k].arg.isError

\* C13: Resolution order.  A call is executed by the built-in handler when
\* its exact name is in the built-in registry, also when the remote registry
\* has the name too, and no server is called then; only a name the built-in
\* registry lacks is looked up in the remote registry, whose server handles
\* it (when connected); a name in neither registry gives the error
\* "unknown tool: <name>" and runs no handler.
C13_ResolutionOrder ==
    pc = "done" =>
        LET e == execLog[1]
            reg == env.loop.registry
        IN  /\ e.name \in reg.builtins =>
                  e.handler = "builtin" /\ e.outcome \in {"ok", "soft", "fail"}
            /\ (e.name \notin reg.builtins /\ e.name \in DOMAIN reg.mcp) =>
                  IF reg.mcp[e.name].ServerName \in env.loop.mcpClients
                  THEN e.handler = reg.mcp[e.name].ServerName
                  ELSE e.handler = "" /\ e.err = "MCP server \"srv\" not connected"
            /\ (e.name \notin reg.builtins /\ e.name \notin DOMAIN reg.mcp) =>
                  /\ e.handler = ""
                  /\ e.outcome = "none"
                  /\ e.err = "unknown tool: " \o e.name
                  /\ resultParts[1].fr[1].response = << <<"error", e.err>> >>

C13_Witness ==
    /\ pc = "done"
    /\ execLog[1].name = "read_file"
    /\ "read_file" \in env.loop.registry.builtins
    /\ "read_file" \in DOMAIN env.loop.registry.mcp
    /\ "srv" \in env.loop.mcpClients
    /\ execLog[1].handler = "builtin"

C13_WitnessUnknown ==
    /\ pc = "done"
    /\ execLog[1].name = "READ_FILE"
    /\ "read_file" \in env.loop.registry.builtins
    /\ execLog[1].err = "unknown tool: READ_FILE"

\* C14: The history is mutated only by append.  In every step of Run the
\* history after the step starts with the history before it: no turn is
\* removed, moved or changed, however Run ends.
C14_AppendOnly ==
    [][/\ Len(contents') >= Len(contents)
       /\ SubSeq(contents', 1, Len(contents)) = contents]_vars

C14_Witness ==
    /\ pc = "done"
    /\ runErr.kind = "ctx"
    /\ Len(contents) = 3
    /\ contents[1] = Content("user", <<TextPart("list files", "")>>)
    /\ contents[2].role = "model"
    /\ contents[3].role = "user"

\* C15: Cancellation at the top of a turn.  When a turn starts (the loop
\* condition holds) with the context cancelled, the step Run takes returns
\* the cancellation error: no transport call is made, no request is sent, no
\* tool is executed, nothing is written to the formatter and the history is
\* not changed.
C15_CancelAtTop ==
    [][(pc = "top" /\ ctxDone /\ turn < cfg.MaxTurns) =>
          /\ pc' = "done"
          /\ runErr' = CtxErr
          /\ transportCalls' = transportCalls
          /\ httpSent' = httpSent
          /\ execLog' = execLog
          /\ resultParts' = resultParts
          /\ sink' = sink
          /\ contents' = contents]_vars

C15_Witness ==
    /\ pc = "done"
    /\ runErr = CtxErr
    /\ cancelAt.pc = "dispatch"
    /\ turn = 1
    /\ transportCalls = 1
    /\ Len(contents) = 3

\* the events the consumer took from the latest stream
TakenEvents == IF received = <<>> THEN <<>> ELSE received[Len(received)]

\* those and the ones its goroutine goes on to send
SentEvents == TakenEvents \o stream

IsTerminal(e) == e.type \in {"done", "error"}

\* C16: The done event is sent once per stream and only after the stream
\* closed naturally (end of body or sentinel): once the goroutine has sent an
\* error event for a failed read, it sends no done event after it.
C16_DoneOnlyAfterNaturalClose ==
    /\ Cardinality({ i \in 1..Len(SentEvents) : SentEvents[i].type = "done" }) <= 1
    /\ \A i \in 1..Len(TakenEvents) :
          TakenEvents[i].type = "error" =>
              \A j \in (i + 1)..Len(SentEvents) : SentEvents[j].type # "done"

\* C17: Stream event order.  The goroutine of a stream sends one start event
\* first, before it reads the body and whatever the body holds, then the
\* content and tool_call events of the chunks in their order, then one
\* terminal event (done or error), after which it sends nothing and closes
\* the channel.
C17_StreamEventOrder ==
    /\ (pc = "stream" /\ prod = "running" /\ TakenEvents = <<>>) =>
          Head(stream) = StartEvent
    /\ \A i \in 1..Len(TakenEvents) :
          /\ (TakenEvents[i].type = "start") <=> (i = 1)
          /\ IsTerminal(TakenEvents[i]) =>
                /\ i = Len(TakenEvents)
                /\ stream = <<>>
          /\ (i > 1 /\ ~IsTerminal(TakenEvents[i])) =>
                TakenEvents[i].type \in {"content", "tool_call"}
    /\ (received # <<>> /\ lastResp.kind = "http" /\ lastResp.status = StatusOK) =>
          \E k \in 0..Len(LinesEvents(LinesRead(lastResp.payload.sbody.lines))) :
              SelectSeq(TakenEvents, LAMBDA e : e.type \in {"content", "tool_call"})
                  = SubSeq(LinesEvents(LinesRead(lastResp.payload.sbody.lines)), 1, k)
    /\ prod = "exited" =>
          /\ TakenEvents # <<>>
          /\ IsTerminal(TakenEvents[Len(TakenEvents)])

\* the events WriteStreamEvent was called with, in order
StreamWrites ==
    LET w == SelectSeq(sink, LAMBDA x : x.op = "WriteStreamEvent")
    IN  [i \in 1..Len(w) |-> w[i].arg]

\* the events taken from the streams of this invocation, in order
AllTaken == Flatten(received)

\* C18 as stated: in streaming mode every start, content, tool_call and done
\* event the controller takes from the stream is handed to WriteStreamEvent
\* as it arrives, the writes being in the order of arrival.
C18_ForwardsEveryEvent ==
    StreamWrites =
        SelectSeq(AllTaken,
                  LAMBDA e : e.type \in {"start", "content", "tool_call", "done"})

\* C18, amended: every start event, every content event with text and every
\* done event the controller takes from the stream is handed to
\* WriteStreamEvent in the step that takes it, the writes being in the order
\* of arrival; tool_call and error events are not handed to WriteStreamEvent.
C18_ForwardsTextStartDone ==
    /\ StreamWrites =
          SelectSeq(AllTaken,
                    LAMBDA e : \/ e.type \in {"start", "done"}
                               \/ e.type = "content" /\ e.text # "")
    /\ \A i \in 1..Len(StreamWrites) : StreamWrites[i].type \notin {"tool_call", "error"}
    /\ ~cfg.Streaming => StreamWrites = <<>>

C18_Witness ==
    /\ cfg.Streaming
    /\ pc = "dispatch"
    /\ Len(TakenEvents) = 4
    /\ TakenEvents[2].type = "content"
    /\ TakenEvents[3].type = "tool_call"
    /\ TakenEvents[4].type = "done"
    /\ StreamWrites = <<TakenEvents[1], TakenEvents[2], TakenEvents[4]>>

\* C19: One outbound call in flight.  No tool is dispatched and no
\* generation call is issued or waiting (for its response or for its retry)
\* while the goroutine of an earlier stream has not returned, within a turn,
\* after a stream that ended with an error, and from one line of the
\* interactive loop to the next.
C19_OneCallInFlight ==
    /\ orphans = 0
    /\ pc \in {"http", "wait", "dispatch"} => prod # "running"

\* C20: Stopping the consumer stops the worker.  Once callModelStreaming has
\* left its loop over the channel, the goroutine of the stream has no event
\* left to send: it is not blocked on a send nobody will take, so it returns,
\* closes the channel and closes the response body.
C20_ProducerTerminates ==
    (prod = "running" /\ pc # "stream") => (stream = <<>> /\ ENABLED ProducerExit)

\* the errors formatter.WriteError was called with, in order
ErrorWrites ==
    LET w == SelectSeq(sink, LAMBDA x : x.op = "WriteError")
    IN  [i \in 1..Len(w) |-> w[i].arg]

\* C21: A fatal error is written to the Sink exactly once.  When the
\* invocation has ended with an error (Run returned it and run() returns it),
\* formatter.WriteError has been called once, with that error; when it ended
\* without one, tool errors or not, WriteError has not been called.
C21_FatalErrorWrittenOnce ==
    pc = "done" =>
        ErrorWrites = (IF runErr = NilErr THEN <<>> ELSE <<runErr>>)

\* the responses formatter.WriteResponse was called with, in order
ResponseWrites ==
    LET w == SelectSeq(sink, LAMBDA x : x.op = "WriteResponse")
    IN  [i \in 1..Len(w) |-> w[i].arg]

\* C22: Buffered mode.  The parts Run works on are all the parts of all the
\* candidates of the response; WriteResponse is called with a response exactly
\* when none of its parts is a function call: never with one that holds a
\* call, and once, with the final response, in a run that succeeds.
C22_BufferedWriteResponse ==
    ~cfg.Streaming =>
        /\ \A i \in 1..Len(ResponseWrites) :
              \A c \in 1..Len(ResponseWrites[i].candidates) :
                  \A p \in 1..Len(ResponseWrites[i].candidates[c].parts) :
                      ~IsCallPart(ResponseWrites[i].candidates[c].parts[p])
        /\ Len(ResponseWrites) <= 1
        /\ (pc = "dispatch" /\ lastResp.kind = "http" /\ lastResp.status = StatusOK) =>
              /\ ResponseWrites = <<>>
              /\ modelParts = Flatten([c \in 1..Len(lastResp.payload.resp.candidates) |->
                                          lastResp.payload.resp.candidates[c].parts])
              /\ \E p \in 1..Len(modelParts) : IsCallPart(modelParts[p])
        /\ (pc = "done" /\ runErr = NilErr) =>
              /\ ResponseWrites = <<lastResp.payload.resp>>
              /\ modelParts = Flatten([c \in 1..Len(lastResp.payload.resp.candidates) |->
                                          lastResp.payload.resp.candidates[c].parts])
        /\ ResponseWrites # <<>> => (pc = "done" /\ runErr = NilErr)

C22_Witness ==
    /\ ~cfg.Streaming
    /\ pc = "done"
    /\ runErr = NilErr
    /\ turn = 1
    /\ Len(ResponseWrites) = 1
    /\ Len(SelectSeq(sink, IsToolCallWrite)) = 2
    /\ ResponseWrites[1].candidates[1].parts = <<TextPart("Found 2 files.", "")>>

\* C23: End-to-end example.  From the history [user: text], when the first
\* response was the one call list_directory and the second response, read to
\* its end, holds no call, Run has returned success after two transport
\* calls and one executeTool, and the history begins with the user text, the
\* model turn with that call and the user turn with one FunctionResponse part
\* named list_directory that holds the result of the call.
C23_EndToEndExample ==
    (/\ Len(asArrived) >= 2
     /\ asArrived[2] = <<CallPart("list_directory", "")>>
     /\ turn = 1
     /\ ResponseComplete
     /\ ~HasFunctionCalls(BackendParts(lastResp))) =>
        /\ pc = "done"
        /\ runErr = NilErr
        /\ transportCalls = 2
        /\ Len(execLog) = 1
        /\ execLog[1].name = "list_directory"
        /\ Len(SelectSeq(sink, IsToolCallWrite)) = 1
        /\ contents =
              <<Content("user", <<TextPart("list files", "")>>),
                Content("model", <<CallPart("list_directory",
                                            "skip_thought_signature_validator")>>),
                Content("user",
                        <<[text |-> "", fc |-> <<>>, sig |-> "",
                           fr |-> <<[name |-> "list_directory",
                                     response |->
                                         IF execLog[1].err # ""
                                         THEN << <<"error", execLog[1].err>> >>
                                         ELSE IF execLog[1].outcome = "soft"
                                         THEN << <<"error", "no such file">> >>
                                         ELSE << <<"count", "2">>,
                                                 <<"entries", "a.txt b.txt">> >>]>>]>>)>>

C23_Witness ==
    /\ pc = "done"
    /\ runErr = NilErr
    /\ transportCalls = 2
    /\ asArrived[2] = <<CallPart("list_directory", "")>>
    /\ modelParts = <<TextPart("Found 2 files.", "")>>
    /\ contents[3].parts[1].fr[1].response = << <<"count", "2">>,
                                                <<"entries", "a.txt b.txt">> >>

\* C24: Extension enablement.  isEnabled returns true when the enablement
\* config is nil or has no entry for the extension; otherwise the rules of
\* the entry are applied in list order to the normalized path, a rule with
\* the prefix "!" disabling and any other rule enabling when its pattern
\* matches, so that the last matching rule decides and a path no rule matches
\* stays enabled.  Matching is as TestMatchesPath has it: equal, prefix, or
\* prefix up to a trailing wildcard.
C24_ExtensionEnablement ==
    /\ matchesPath(<<"/", "u", "/">>, <<"/", "u", "/">>)
    /\ matchesPath(<<"/", "u", "/">>, <<"/", "u", "/", "p", "/", "s", "/">>)
    /\ matchesPath(<<"/", "u", "/", "*">>, <<"/", "u", "/", "p", "/", "s", "/">>)
    /\ ~matchesPath(<<"/", "o", "/", "p", "/">>, <<"/", "u", "/">>)
    /\ ext.returned =>
          LET c == ext.call
              np == IF c.path[Len(c.path)] = "/" THEN c.path ELSE c.path \o <<"/">>
          IN  IF c.enablement.isNil \/ c.extName \notin DOMAIN c.enablement.entries
              THEN ext.enabled
              ELSE LET rules == c.enablement.entries[c.extName]
                       Disables(r) == r # <<>> /\ r[1] = "!"
                       Matches(r) ==
                           matchesPath(IF Disables(r) THEN Tail(r) ELSE r, np)
                       m == { i \in 1..Len(rules) : Matches(rules[i]) }
                   IN  ext.enabled <=>
                          \/ m = {}
                          \/ ~Disables(rules[CHOOSE i \in m : \A j \in m : j <= i])

C24_Witness ==
    /\ ext.returned
    /\ ext.enabled
    /\ ext.call.path = <<"/", "u", "/", "p", "/", "s">>
    /\ ~ext.call.enablement.isNil
    /\ "test" \in DOMAIN ext.call.enablement.entries
    /\ ext.call.enablement.entries["test"] =
          << <<"/", "u", "/", "*">>, <<"!", "/", "u", "/", "p">>,
             <<"/", "u", "/", "p", "/", "s">> >>

\* C25: Exponential backoff.  When neither the header nor the body of the 429
\* gives a delay, the wait after attempt a (from 0) is min(500 ms * 2^a, 30 s);
\* the waits of one call are 500, 1000, 2000, 4000 and 8000 ms, in that
\* order (the k-th wait of the call is the k-th of these), and none is longer
\* than 30 s.
C25_ExponentialBackoff ==
    (/\ pc = "wait"
     /\ lastResp.ra = <<>>
     /\ lastResp.body.details = <<>>) =>
        /\ delay = (IF 500 * 1000 * (2 ^ attempt) < 30 * 1000 * 1000
                    THEN 500 * 1000 * (2 ^ attempt) ELSE 30 * 1000 * 1000)
        /\ delay <= 30 * 1000 * 1000
        /\ attempt = waitsDone
        /\ waitsDone + 1 <= 5
        /\ delay = <<500000, 1000000, 2000000, 4000000, 8000000>>[waitsDone + 1]

\* C26: Per-part event emission.  The content and tool_call events of a
\* stream that was read to its end are, for every chunk, candidate and part in
\* the order of the body, a content event when the text of the part is not
\* empty and a tool_call event when the part holds a function call, the
\* content event first, each with the token of the part; and every token the
\* backend attached to a part of the response is on one of these events.
C26_PerPartEmission ==
    (/\ cfg.Streaming
     /\ prod = "exited"
     /\ lastResp.kind = "http"
     /\ lastResp.status = StatusOK) =>
        LET parts == BackendParts(lastResp)
            evs == SelectSeq(TakenEvents,
                             LAMBDA e : e.type \in {"content", "tool_call"})
            want == Flatten([i \in 1..Len(parts) |->
                        (IF parts[i].text # ""
                         THEN <<[type |-> "content", text |-> parts[i].text,
                                 toolCall |-> <<>>, sig |-> parts[i].sig]>>
                         ELSE <<>>)
                        \o (IF parts[i].fc # <<>>
                            THEN <<[type |-> "tool_call", text |-> "",
                                    toolCall |-> parts[i].fc, sig |-> parts[i].sig]>>
                            ELSE <<>>)])
        IN  /\ [j \in 1..Len(evs) |->
                   [type |-> evs[j].type, text |-> evs[j].text,
                    toolCall |-> evs[j].toolCall, sig |-> evs[j].sig]] = want
            /\ \A i \in 1..Len(parts) :
                  parts[i].sig # "" => \E j \in 1..Len(evs) : evs[j].sig = parts[i].sig

\* the parts a sequence of events stands for, tokens included: a text part
\* per maximal run of content events, with the latest non-empty token of the
\* run, and a call part per tool_call event, with the token of the event
RECURSIVE TokenSegments(_, _, _)
TokenSegments(events, text, sig) ==
    IF events = <<>>
    THEN IF text = "" THEN <<>> ELSE <<TextPart(text, sig)>>
    ELSE IF Head(events).type = "content"
    THEN TokenSegments(Tail(events), text \o Head(events).text,
                       IF Head(events).sig # "" THEN Head(events).sig ELSE sig)
    ELSE IF Head(events).type = "tool_call"
    THEN (IF text = "" THEN <<>> ELSE <<TextPart(text, sig)>>)
         \o <<Part("", Head(events).toolCall, NoResp, Head(events).sig)>>
         \o TokenSegments(Tail(events), "", "")
    ELSE TokenSegments(Tail(events), text, sig)

\* C27: Streaming text flush and token.  The text accumulated from the
\* content events is appended as one Text part right before each tool_call
\* part and once more when the stream has closed; the token of that part is
\* the latest non-empty token of the content events of its segment; after a
\* flush the buffer and the token are empty, so that a segment gets neither
\* text nor token of the one before it.
C27_FlushAndToken ==
    /\ (cfg.Streaming /\ pc = "stream") =>
          /\ FinalFlush(st) = TokenSegments(TakenEvents, "", "")
          /\ (TakenEvents # <<>>
              /\ TakenEvents[Len(TakenEvents)].type = "tool_call") =>
                 st.currentText = "" /\ st.lastTextSignature = ""
          /\ st.currentText = "" => st.lastTextSignature = ""
    /\ StreamReturned => modelParts = TokenSegments(StreamedEvents, "", "")

C27_Witness ==
    /\ StreamReturned
    /\ modelParts = <<TextPart("ba", "s1"), CallPart("nope", ""), TextPart("a", "")>>
    /\ Len(SelectSeq(StreamedEvents, LAMBDA e : e.type = "content")) = 3

\* the tokens on the parts of a list
SigsOf(parts) == { parts[i].sig : i \in 1..Len(parts) } \ {""}

\* C28: Continuation tokens are echoed back.  When the response of a turn
\* has been read to its end and its model turn appended, no token the backend
\* attached to a part of the response is missing from the turn; a call part
\* of the turn has the token of the backend's part with that call (the
\* placeholder when that part had none) and a text part of the turn has no
\* token other than one the backend put on a part with text; in buffered mode
\* the parts are the backend's parts one for one.
C28_TokensEchoed ==
    (pc = "dispatch" /\ ResponseComplete) =>
        LET sent == BackendParts(lastResp)
            kept == contents[Len(contents)].parts
        IN  /\ SigsOf(sent) \subseteq SigsOf(kept)
            /\ \A i \in 1..Len(kept) :
                  IF IsCallPart(kept[i])
                  THEN \E j \in 1..Len(sent) :
                          /\ sent[j].fc = kept[i].fc
                          /\ kept[i].sig = (IF sent[j].sig = ""
                                            THEN "skip_thought_signature_validator"
                                            ELSE sent[j].sig)
                  ELSE kept[i].sig # "" =>
                          \E j \in 1..Len(sent) :
                              sent[j].text # "" /\ sent[j].sig = kept[i].sig
            /\ ~cfg.Streaming =>
                  /\ Len(kept) = Len(sent)
                  /\ \A i \in 1..Len(sent) :
                        /\ kept[i].text = sent[i].text
                        /\ kept[i].fc = sent[i].fc
                        /\ sent[i].sig # "" => kept[i].sig = sent[i].sig

\* C29: The done event of a stream that was read to its end carries the
\* usage of the last chunk that had a total token count above 0 and the
\* finish reason of the last candidate that had one; a later chunk without
\* them does not erase them, and when no chunk had them the done event has
\* neither.  The chunks are those of the event lines of the body up to the
\* sentinel or the end of the body.
C29_DoneCarriesLastUsage ==
    (/\ cfg.Streaming
     /\ prod = "exited"
     /\ lastResp.kind = "http"
     /\ lastResp.status = StatusOK) =>
        LET all == lastResp.payload.sbody.lines \o lastResp.payload.sbody.rest
            sentinels == { i \in 1..Len(all) : all[i].kind = "sentinel" }
            upTo == IF sentinels = {} THEN Len(all)
                    ELSE (CHOOSE i \in sentinels : \A j \in sentinels : i <= j) - 1
            data == SelectSeq(SubSeq(all, 1, upTo), LAMBDA l : l.kind = "data")
            cands == Flatten([i \in 1..Len(data) |-> data[i].chunk.candidates])
            withUsage == { i \in 1..Len(data) : data[i].chunk.usage > 0 }
            withFinish == { i \in 1..Len(cands) : cands[i].finishReason # "" }
            done == TakenEvents[Len(TakenEvents)]
        IN  /\ done.type = "done"
            /\ done.usage = (IF withUsage = {} THEN 0
                             ELSE data[CHOOSE i \in withUsage :
                                           \A j \in withUsage : j <= i].chunk.usage)
            /\ done.finishReason =
                  (IF withFinish = {} THEN ""
                   ELSE cands[CHOOSE i \in withFinish :
                                  \A j \in withFinish : j <= i].finishReason)

C29_Witness ==
    /\ cfg.Streaming
    /\ prod = "exited"
    /\ Len(LinesRead(lastResp.payload.sbody.lines)) = 3
    /\ LinesRead(lastResp.payload.sbody.lines)[1].chunk.usage = 3
    /\ LinesRead(lastResp.payload.sbody.lines)[3].chunk.usage = 0
    /\ TakenEvents[Len(TakenEvents)].usage = 7
    /\ TakenEvents[Len(TakenEvents)].finishReason = "MAX_TOKENS"

C29_WitnessNone ==
    /\ cfg.Streaming
    /\ prod = "exited"
    /\ Len(TakenEvents) = 4
    /\ TakenEvents[4].type = "done"
    /\ TakenEvents[4].usage = 0
    /\ TakenEvents[4].finishReason = ""

\* C30: Streaming decode tolerance.  Of the lines of a body only the event
\* lines before the sentinel whose payload decodes produce events, those of
\* their parts, in order: a line that is no event line and a payload that
\* does not decode produce nothing and the reading goes on, and no line after
\* the sentinel produces anything.  An error event is sent exactly when a
\* read fails before the sentinel, and once.
C30_DecodeTolerance ==
    (/\ cfg.Streaming
     /\ received # <<>>
     /\ lastResp.kind = "http"
     /\ lastResp.status = StatusOK
     /\ ~ctxDone) =>
        LET body == lastResp.payload.sbody
            sentinels == { i \in 1..Len(body.lines) : body.lines[i].kind = "sentinel" }
            last == IF sentinels = {} THEN Len(body.lines)
                    ELSE (CHOOSE i \in sentinels : \A j \in sentinels : i <= j) - 1
            data == SelectSeq(SubSeq(body.lines, 1, last), LAMBDA l : l.kind = "data")
            parts == Flatten([i \in 1..Len(data) |->
                        Flatten([c \in 1..Len(data[i].chunk.candidates) |->
                                    data[i].chunk.candidates[c].parts])])
            payload == SelectSeq(SentEvents,
                                 LAMBDA e : e.type \in {"content", "tool_call"})
            errors == SelectSeq(SentEvents, LAMBDA e : e.type = "error")
        IN  /\ payload = Flatten([i \in 1..Len(parts) |->
                            (IF parts[i].text # ""
                             THEN <<ContentEvent(parts[i].text, parts[i].sig)>>
                             ELSE <<>>)
                            \o (IF parts[i].fc # NoCall
                                THEN <<ToolCallEvent(parts[i].fc, parts[i].sig)>>
                                ELSE <<>>)])
            /\ Len(errors) = (IF sentinels = {} /\ body.readErr THEN 1 ELSE 0)

C30_Witness ==
    /\ cfg.Streaming
    /\ prod = "exited"
    /\ Len(lastResp.payload.sbody.lines) = 8
    /\ lastResp.payload.sbody.lines[3].kind = "bad"
    /\ lastResp.payload.sbody.lines[7].kind = "data"
    /\ modelParts = <<TextPart("ab", "")>>
    /\ runErr = NilErr

C30_WitnessReadFailure ==
    /\ cfg.Streaming
    /\ runErr.kind = "stream"
    /\ lastResp.payload.sbody.lines[1].kind = "bad"
    /\ Len(TakenEvents) = 3
    /\ TakenEvents[2].type = "content"
    /\ TakenEvents[3].type = "error"

\* C31: A call to a remote tool whose server has no connected client fails
\* only that call.  executeTool returns the error 'MCP server "<name>" not
\* connected' and calls no handler; the call is answered by a FunctionResponse
\* part whose result is the error; the dispatch goes on with the calls that
\* remain, the user turn is appended, and the next turn starts its transport
\* call as any other turn does.
C31_NotConnectedIsolated ==
    (\E k \in 1..Len(execLog) : execLog[k].name = "off__ping") =>
        /\ \A k \in 1..Len(execLog) :
              execLog[k].name = "off__ping" =>
                  /\ execLog[k].handler = ""
                  /\ execLog[k].err = "MCP server \"off\" not connected"
                  /\ resultParts[k] =
                        [text |-> "", fc |-> <<>>, sig |-> "",
                         fr |-> <<[name |-> "off__ping",
                                   response |-> << <<"error",
                                       "MCP server \"off\" not connected">> >>]>>]
        /\ runErr.cause # "MCP server \"off\" not connected"
        /\ runErr.kind \in {"running", "nil", "ctx", "send", "api", "ratelimited",
                            "decode", "stream", "maxturns"}
        /\ pc = "dispatch" =>
              /\ runErr = Running
              /\ Len(execLog) < Len(functionCalls)
              /\ ENABLED Dispatch
        /\ pc # "dispatch" =>
              /\ Len(execLog) = Len(functionCalls)
              /\ contents[Len(contents)] = Content("user", resultParts)
        /\ (pc = "top" /\ ~ctxDone /\ turn < cfg.MaxTurns) =>
              ENABLED (LoopTop /\ pc' = "http" /\ transportCalls' = turn + 1)

C31_Witness ==
    /\ pc = "http"
    /\ turn = 1
    /\ transportCalls = 2
    /\ Len(execLog) = 2
    /\ execLog[1].name = "off__ping"
    /\ execLog[1].err = "MCP server \"off\" not connected"
    /\ execLog[2].name = "read_file"
    /\ execLog[2].outcome = "ok"
    /\ Len(contents) = 3

C33_CancelDuringStream ==
    cancelAt.pc = "stream" =>
        /\ pc \in {"stream", "done"}
        /\ pc = "done" => runErr = CtxErr
        /\ transportCalls = turn + 1
        /\ Len(contents) = 1 + 2 * turn

\* C34: The transport waits only between attempts.  A wait is started only
\* when a retry follows it, so a call makes as many waits as it sends retries
\* (at most maxRetries); the call that got its last 429 fails with the
\* rate-limit error without another wait, and a cancellation after that
\* answer does not replace the rate-limit error.
C34_WaitsOnlyBetweenAttempts ==
    /\ pc = "wait" => attempt < maxRetries
    /\ waitsDone <= maxRetries
    /\ runErr.kind = "ratelimited" =>
          /\ httpSent = maxRetries + 1
          /\ waitsDone = httpSent - 1
    /\ (/\ pc = "done"
        /\ httpSent = maxRetries + 1
        /\ lastResp.kind = "http"
        /\ lastResp.status = StatusTooManyRequests) => runErr.kind = "ratelimited"

\* C35: Call/response pairing.  Whenever Run has returned, whatever it
\* returned and wherever the context was cancelled, every model turn of the
\* history has at least one function call and is followed at once by a user
\* turn that consists of one FunctionResponse part per call, with the names
\* of the calls in their order; so the history does not end with a model
\* turn.
C35_CallResponsePairing ==
    pc = "done" =>
        \A i \in 1..Len(contents) :
            contents[i].role = "model" =>
                LET calls == SelectSeq(contents[i].parts, LAMBDA p : p.fc # NoCall)
                IN  /\ Len(calls) >= 1
                    /\ i < Len(contents)
                    /\ contents[i + 1].role = "user"
                    /\ Len(contents[i + 1].parts) = Len(calls)
                    /\ \A k \in 1..Len(calls) :
                           /\ contents[i + 1].parts[k].fr # NoResp
                           /\ contents[i + 1].parts[k].fr[1].name = calls[k].fc[1].name

C35_Witness ==
    /\ pc = "done"
    /\ runErr = CtxErr
    /\ cancelAt.pc = "dispatch"
    /\ Len(execLog) = 2
    /\ turn = 1
    /\ Len(contents) = 3
    /\ contents[2].role = "model"
    /\ Len(contents[3].parts) = 2

\* C36: Role alternation.  Over any sequence of lines read by the REPL and
\* outcomes of Run on the shared request, the history starts with a user
\* turn and no two neighbouring turns have the same role: the answer of one
\* invocation is in the history before the next input is appended.
C36_RoleAlternation ==
    /\ contents[1].role = "user"
    /\ \A i \in 1..(Len(contents) - 1) : contents[i].role # contents[i + 1].role

\* C37: State at budget exhaustion.  When Run returns the budget error for
\* MaxTurns = N > 0, N transport calls were made, the calls of every turn,
\* the N-th included, were executed and answered, the history has grown by
\* 2N turns and ends with a user turn of FunctionResponse parts that no
\* request carried: the last request sent holds the history without its last
\* two turns.  For MaxTurns = 0 Run returns the budget error with no
\* transport call, no tool executed and the history as it was.
C37_StateAtBudgetExhaustion ==
    runErr.kind = "maxturns" =>
        /\ transportCalls = cfg.MaxTurns
        /\ Len(contents) = 1 + 2 * cfg.MaxTurns
        /\ contents[1] = [role |-> "user",
                          parts |-> <<[text |-> "list files", fc |-> <<>>,
                                       fr |-> <<>>, sig |-> ""]>>]
        /\ \A i \in 1..cfg.MaxTurns :
              /\ contents[2 * i].role = "model"
              /\ contents[2 * i + 1].role = "user"
              /\ Len(contents[2 * i + 1].parts)
                    = Len(SelectSeq(contents[2 * i].parts, LAMBDA p : p.fc # <<>>))
              /\ Len(contents[2 * i + 1].parts) >= 1
              /\ \A k \in 1..Len(contents[2 * i + 1].parts) :
                     contents[2 * i + 1].parts[k].fr # <<>>
        /\ Len(SelectSeq(sink, LAMBDA e : e.op = "WriteToolResult"))
              = Len(Flatten([i \in 1..cfg.MaxTurns |-> contents[2 * i + 1].parts]))
        /\ cfg.MaxTurns > 0 =>
              /\ contents[Len(contents)].parts = resultParts
              /\ lastReq.body = Marshal(SubSeq(contents, 1, Len(contents) - 2))
        /\ cfg.MaxTurns = 0 =>
              /\ httpSent = 0
              /\ sink = <<>>
              /\ execLog = <<>>

C37_Witness ==
    /\ runErr.kind = "maxturns"
    /\ cfg.MaxTurns = 2
    /\ ~cfg.Streaming
    /\ Len(contents) = 5
    /\ Len(contents[5].parts) = 2

C37_WitnessZero ==
    /\ runErr.kind = "maxturns"
    /\ cfg.MaxTurns = 0
    /\ contents = <<Content("user", <<TextPart("list files", "")>>)>>

\* C38: Remote tool naming.  The tool that server "srv" lists as "echo" is
\* registered under the key "srv__echo", and the dispatch of a call named
\* "srv__echo" calls CallTool on the client of "srv" with the tool name
\* "echo", the name the server listed.
C38_RemoteToolNaming ==
    /\ "srv__echo" \in DOMAIN MCPRefs
    /\ MCPRefs["srv__echo"].ServerName = "srv"
    /\ \A k \in 1..Len(execLog) :
          execLog[k].name = "srv__echo" =>
              /\ execLog[k].handler = "srv"
              /\ execLog[k].tool = "echo"

\* C39: An interrupt signal cancels the context of the running turn in
\* every mode.  The step in which the signal handler acts while Run is
\* running leaves the context of that Run cancelled, in single-shot mode and
\* in the REPL.
C39_SignalCancelsRunningTurn ==
    [][(~signal.rootDone /\ signal'.rootDone /\ pc \notin {"done", "prompt"}) => ctxDone']_vars

\* C40: No payload is lost at the end of the stream.  When a body was read
\* to its end without read failure and without cancellation, every event
\* line with a payload that decodes and that comes before the sentinel or
\* the end of the body has produced the content and tool_call events of its
\* parts, the last line included when the body ends right after it, without
\* newline.
C40_NoPayloadLostAtEnd ==
    (/\ cfg.Streaming
     /\ prod = "exited"
     /\ lastResp.kind = "http"
     /\ lastResp.status = StatusOK
     /\ ~lastResp.payload.sbody.readErr
     /\ ~ctxDone) =>
        LET all == lastResp.payload.sbody.lines \o lastResp.payload.sbody.rest
            sentinels == { i \in 1..Len(all) : all[i].kind = "sentinel" }
            last == IF sentinels = {} THEN Len(all)
                    ELSE (CHOOSE i \in sentinels : \A j \in sentinels : i <= j) - 1
            data == SelectSeq(SubSeq(all, 1, last), LAMBDA l : l.kind = "data")
            parts == Flatten([i \in 1..Len(data) |->
                        Flatten([c \in 1..Len(data[i].chunk.candidates) |->
                                    data[i].chunk.candidates[c].parts])])
            payload == SelectSeq(received[Len(received)],
                                 LAMBDA e : e.type \in {"content", "tool_call"})
        IN  payload = Flatten([i \in 1..Len(parts) |->
                         (IF parts[i].text # ""
                          THEN <<ContentEvent(parts[i].text, parts[i].sig)>>
                          ELSE <<>>)
                         \o (IF parts[i].fc # NoCall
                             THEN <<ToolCallEvent(parts[i].fc, parts[i].sig)>>
                             ELSE <<>>)])

=============================================================================
